---- MODULE Spec2Model ----
(***************************************************************************)
(* A model of the dev-utils-plus utility library.  Every exported function *)
(* is a synchronous call: a state holds the call that is about to be made  *)
(* (fn, args), and the action for that function runs its whole body and    *)
(* records how the call ended (out): a returned value or a thrown error.   *)
(* Functions that work on objects read and write a heap of objects, so     *)
(* that sharing between the caller's objects and the result is visible.    *)
(***************************************************************************)
EXTENDS Integers, Sequences, FiniteSets, TLC

VARIABLES
    pc,     \* "call": the call has not run yet; "done": it has ended
    fn,     \* the name of the function that is called
    args,   \* its arguments
    out,    \* how it ended: [status, err, val]
    heap,   \* the objects that exist, in the order they were made
    heap0   \* the heap as it was when the call started

vars == <<pc, fn, args, out, heap, heap0>>

(***************************************************************************)
(* Bounds of the model.                                                    *)
(***************************************************************************)
MaxNum == 2          \* numeric arguments range over -MaxNum .. MaxNum

MaxLimit == 50       \* generatePrimes is called with limits 0 .. MaxLimit

MaxElem == 2         \* the elements of a sequence of numbers range over -MaxElem .. MaxElem

MaxLen == 4          \* the longest sequence of numbers

MaxEmailLen == 5     \* the longest string given to isValidEmail, the README's aside

FreeDigits == 2      \* the trailing digits of a card number that take every value

MaxPathLen == 3      \* the most segments of a dot-separated path

MaxN == 54           \* binomial(n, k) is computed for 0 <= k <= n <= MaxN

MaxSmallN == 5       \* the largest integer among the arguments given to binomial
                     \* together with the values it refuses

MaxArrLen == 3       \* the longest array given to the array functions

RandomResolution == 8    \* Math.random() is one of the multiples of 1 / RandomResolution

MaxStrLen == 4       \* the longest string given to the string functions

MaxGcdArg == 19      \* gcd is called with integers of -MaxGcdArg .. MaxGcdArg

(***************************************************************************)
(* JavaScript values.  A primitive is [type, nan, num2]: type is what      *)
(* typeof answers; num2 is TWICE the value ToNumber gives it, so that the  *)
(* numbers of the model are the integers and the half-integers (1.5 has    *)
(* num2 = 3); nan says that ToNumber gives NaN (num2 is then 0 and means   *)
(* nothing).  NaN has typeof "number" and is not a number: it compares     *)
(* false with everything.                                                  *)
(***************************************************************************)
Num(i) == [type |-> "number", nan |-> FALSE, num2 |-> 2 * i]

Half(i) == [type |-> "number", nan |-> FALSE, num2 |-> 2 * i + 1]   \* i + 0.5

NaN == [type |-> "number", nan |-> TRUE, num2 |-> 0]

Str(i) == [type |-> "string", nan |-> FALSE, num2 |-> 2 * i]   \* the string 'i', as in '5'

Null == [type |-> "object", nan |-> FALSE, num2 |-> 0]     \* typeof null is "object"

Undefined == [type |-> "undefined", nan |-> TRUE, num2 |-> 0]

Numbers == {Num(i) : i \in -MaxNum .. MaxNum} \cup {Half(i) : i \in -MaxNum .. MaxNum - 1}

NonNumbers == {Str(1), Null, Undefined}

typeof(v) == v.type

IsNumber(v) == v.type = "number" /\ ~v.nan

\* a > b, a <= b on two values after ToNumber: false as soon as one side is NaN.
JsGt(a, b) == ~a.nan /\ ~b.nan /\ a.num2 > b.num2

JsLe(a, b) == ~a.nan /\ ~b.nan /\ a.num2 <= b.num2

JsLt(a, b) == ~a.nan /\ ~b.nan /\ a.num2 < b.num2

\* Math.max and Math.min apply ToNumber and give NaN as soon as one side is NaN.
MathMax(a, b) ==
    IF a.nan \/ b.nan THEN NaN
    ELSE [type |-> "number", nan |-> FALSE, num2 |-> IF a.num2 >= b.num2 THEN a.num2 ELSE b.num2]

MathMin(a, b) ==
    IF a.nan \/ b.nan THEN NaN
    ELSE [type |-> "number", nan |-> FALSE, num2 |-> IF a.num2 <= b.num2 THEN a.num2 ELSE b.num2]

NumberIsInteger(v) == v.type = "number" /\ ~v.nan /\ v.num2 % 2 = 0

(***************************************************************************)
(* How a call ends.                                                        *)
(***************************************************************************)
Pending == [status |-> "pending", err |-> "none", val |-> Undefined]

Return(v) == [status |-> "returned", err |-> "none", val |-> v]

Throw(e) == [status |-> "thrown", err |-> e, val |-> Undefined]

NoHeap == <<>>

(***************************************************************************)
(* math: clamp.  The repository holds two definitions of it.               *)
(***************************************************************************)
clamp_swapped(value, min, max) ==
    IF typeof(value) # "number" \/ typeof(min) # "number" \/ typeof(max) # "number"
    THEN Throw("TypeError")
    ELSE IF JsGt(min, max)
    THEN Throw("Error")
    ELSE Return(MathMax(MathMin(value, min), max))

clamp(value, min, max) ==
    IF typeof(value) # "number" \/ typeof(min) # "number" \/ typeof(max) # "number"
    THEN Throw("TypeError")
    ELSE IF JsGt(min, max)
    THEN Throw("Error")
    ELSE Return(MathMin(MathMax(value, min), max))

\* The second definition: no check of the arguments.
clamp2(value, min, max) == Return(MathMin(MathMax(value, min), max))

ClampValues == Numbers \cup {NaN} \cup NonNumbers

ClampArgs == ClampValues \X ClampValues \X ClampValues

InitClamp ==
    /\ pc = "call"
    /\ fn \in {"clamp", "clamp2"}
    /\ args \in ClampArgs
    /\ out = Pending
    /\ heap = NoHeap
    /\ heap0 = NoHeap

CallClamp ==
    /\ pc = "call"
    /\ fn = "clamp"
    /\ out' = clamp(args[1], args[2], args[3])
    /\ pc' = "done"
    /\ UNCHANGED <<fn, args, heap, heap0>>

CallClamp2 ==
    /\ pc = "call"
    /\ fn = "clamp2"
    /\ out' = clamp2(args[1], args[2], args[3])
    /\ pc' = "done"
    /\ UNCHANGED <<fn, args, heap, heap0>>

NextClamp == CallClamp \/ CallClamp2

SpecClamp == InitClamp /\ [][NextClamp]_vars

\* The arguments are numbers (NaN is not one) with min <= max.
ClampPre ==
    /\ fn \in {"clamp", "clamp2"}
    /\ \A i \in 1..3 : IsNumber(args[i])
    /\ JsLe(args[2], args[3])

(* C1: for numbers v, min, max with min <= max, clamp(v, min, max) returns  *)
(* a number in [min, max], returns v itself when v is already in            *)
(* [min, max], and clamping the result again gives the same result.         *)
C1_ClampInRange ==
    (pc = "done" /\ ClampPre) =>
        /\ out.status = "returned"
        /\ JsLe(args[2], out.val) /\ JsLe(out.val, args[3])
        /\ (JsLe(args[2], args[1]) /\ JsLe(args[1], args[3])) => out.val = args[1]
        /\ IF fn = "clamp"
           THEN clamp(out.val, args[2], args[3]) = out
           ELSE clamp2(out.val, args[2], args[3]) = out

C1_Witness ==
    /\ pc = "done" /\ ClampPre /\ fn = "clamp"
    /\ JsGt(args[1], args[3]) /\ JsLt(args[2], args[3])
    /\ out.val = args[3]

(* C2: clamp fails with a TypeError when an argument is not of type number, *)
(* before it looks at min and max, and fails with an error when all three   *)
(* are numbers and min > max; in neither case does it return a value.       *)
C2_ClampThrows ==
    (pc = "done" /\ fn \in {"clamp", "clamp2"}) =>
        /\ (\E i \in 1..3 : typeof(args[i]) # "number") => out = Throw("TypeError")
        /\ ((\A i \in 1..3 : typeof(args[i]) = "number") /\ JsGt(args[2], args[3]))
              => out = Throw("Error")

(***************************************************************************)
(* math: generatePrimes.  The sieve is an array indexed from 0; writing    *)
(* sieve[1] into an array of length 1 (limit = 0) makes it of length 2.    *)
(***************************************************************************)
NewSieve(limit) ==
    [idx \in 0 .. (IF limit >= 1 THEN limit ELSE 1) |-> idx \notin {0, 1}]

\* for (let j = i * i; j <= limit; j += i) sieve[j] = false
RECURSIVE CrossOut(_, _, _, _)
CrossOut(sieve, j, i, limit) ==
    IF j <= limit
    THEN CrossOut([sieve EXCEPT ![j] = FALSE], j + i, i, limit)
    ELSE sieve

\* for (let i = 2; i <= Math.sqrt(limit); i++): for integers i <= sqrt(limit)
\* is i * i <= limit; with strict the test is i < Math.sqrt(limit).
RECURSIVE SieveLoop(_, _, _, _)
SieveLoop(sieve, i, limit, strict) ==
    IF (IF strict THEN i * i < limit ELSE i * i <= limit)
    THEN SieveLoop(IF sieve[i] THEN CrossOut(sieve, i * i, i, limit) ELSE sieve,
                   i + 1, limit, strict)
    ELSE sieve

\* sieve.map((isPrime, index) => isPrime ? index : null).filter(num => num !== null)
Indices(sieve) ==
    LET n == Cardinality(DOMAIN sieve)
    IN  SelectSeq([k \in 1..n |-> k - 1], LAMBDA index : sieve[index])

generatePrimes_strict(limit) == Return(Indices(SieveLoop(NewSieve(limit), 2, limit, TRUE)))

generatePrimes(limit) == Return(Indices(SieveLoop(NewSieve(limit), 2, limit, FALSE)))

InitPrimes ==
    /\ pc = "call"
    /\ fn \in {"generatePrimes", "isPrime"}
    /\ args \in 0 .. MaxLimit
    /\ out = Pending
    /\ heap = NoHeap
    /\ heap0 = NoHeap

CallGeneratePrimes ==
    /\ pc = "call"
    /\ fn = "generatePrimes"
    /\ out' = generatePrimes(args)
    /\ pc' = "done"
    /\ UNCHANGED <<fn, args, heap, heap0>>

\* for (let i = 3; i <= sqrt; i += 2) if (n % i === 0) return false
RECURSIVE OddDivisor(_, _)
OddDivisor(n, i) ==
    IF i * i <= n
    THEN IF n % i = 0 THEN TRUE ELSE OddDivisor(n, i + 2)
    ELSE FALSE

isPrime(n) ==
    IF n < 2 THEN Return(FALSE)
    ELSE IF n = 2 THEN Return(TRUE)
    ELSE IF n % 2 = 0 THEN Return(FALSE)
    ELSE Return(~OddDivisor(n, 3))

CallIsPrime ==
    /\ pc = "call"
    /\ fn = "isPrime"
    /\ out' = isPrime(args)
    /\ pc' = "done"
    /\ UNCHANGED <<fn, args, heap, heap0>>

NextPrimes == CallGeneratePrimes \/ CallIsPrime

SpecPrimes == InitPrimes /\ [][NextPrimes]_vars

\* p is a prime number: at least 2 and divisible by no d with 1 < d < p.
Prime(p) == p >= 2 /\ \A d \in 2 .. p - 1 : p % d # 0

(* C3: for an integer limit >= 0, generatePrimes(limit) returns a strictly  *)
(* ascending sequence whose elements are exactly the primes p <= limit.     *)
C3_PrimesExact ==
    (pc = "done" /\ fn = "generatePrimes") =>
        /\ out.status = "returned"
        /\ \A k \in 1 .. Len(out.val) - 1 : out.val[k] < out.val[k + 1]
        /\ {out.val[k] : k \in 1 .. Len(out.val)} = {p \in 0 .. args : Prime(p)}

C3_Witness ==
    /\ pc = "done" /\ fn = "generatePrimes"
    /\ args = 49
    /\ Len(out.val) = 15 /\ out.val[15] = 47

(***************************************************************************)
(* math: the statistical functions.  Their numbers are fractions           *)
(* [n, d, root]: the value n / d in lowest terms with d > 0, or its square *)
(* root when root is set (what Math.sqrt gives when the fraction is not a  *)
(* square); n = d = 0 is NaN, the value of 0 / 0.                          *)
(***************************************************************************)
Abs(x) == IF x < 0 THEN -x ELSE x

RECURSIVE GCD(_, _)
GCD(a, b) == IF b = 0 THEN a ELSE GCD(b, a % b)

Rat(n, d) ==
    LET g == GCD(Abs(n), d)
    IN  IF g = 0 THEN [n |-> 0, d |-> 0, root |-> FALSE]
        ELSE [n |-> n \div g, d |-> d \div g, root |-> FALSE]

Whole(i) == Rat(i, 1)

NaNRat == Rat(0, 0)

RatAdd(a, b) == Rat(a.n * b.d + b.n * a.d, a.d * b.d)

RatSub(a, b) == Rat(a.n * b.d - b.n * a.d, a.d * b.d)

RatMul(a, b) == Rat(a.n * b.n, a.d * b.d)

\* a / k for a count k >= 0
RatDiv(a, k) == Rat(a.n, a.d * k)

\* a - b < 0, the test the sort makes with (a, b) => a - b
RatLt(a, b) == a.n * b.d < b.n * a.d

IsSquare(x) == \E k \in 0 .. x : k * k = x

ISqrt(x) == CHOOSE k \in 0 .. x : k * k = x

MathSqrt(a) ==
    IF IsSquare(a.n) /\ IsSquare(a.d)
    THEN Rat(ISqrt(a.n), ISqrt(a.d))
    ELSE [n |-> a.n, d |-> a.d, root |-> TRUE]

\* numbers.reduce((acc, num) => acc + num, 0)
RECURSIVE Reduce(_, _, _)
Reduce(numbers, i, acc) ==
    IF i > Len(numbers) THEN acc ELSE Reduce(numbers, i + 1, RatAdd(acc, numbers[i]))

sum(numbers) == Return(Reduce(numbers, 1, Whole(0)))

average_unguarded(numbers) == Return(RatDiv(sum(numbers).val, Len(numbers)))

average(numbers) ==
    IF Len(numbers) = 0 THEN Return(Whole(0))
    ELSE Return(RatDiv(sum(numbers).val, Len(numbers)))

\* [...numbers].sort((a, b) => a - b): the elements in ascending order.  The
\* sort is stable; equal numbers are the same value, so the order is unique.
RECURSIVE Insert(_, _)
Insert(sorted, x) ==
    IF sorted = <<>> THEN <<x>>
    ELSE IF RatLt(x, Head(sorted)) THEN <<x>> \o sorted
    ELSE <<Head(sorted)>> \o Insert(Tail(sorted), x)

RECURSIVE SortAsc(_)
SortAsc(numbers) ==
    IF numbers = <<>> THEN <<>>
    ELSE Insert(SortAsc(SubSeq(numbers, 1, Len(numbers) - 1)), numbers[Len(numbers)])

\* The body of median after the copy; index k of the code is k + 1 here.
MedianOf(sorted) ==
    LET mid == Len(sorted) \div 2
    IN  IF Len(sorted) % 2 = 0
        THEN Return(RatDiv(RatAdd(sorted[mid], sorted[mid + 1]), 2))
        ELSE Return(sorted[mid + 1])

median_unsorted(numbers) ==
    IF Len(numbers) = 0 THEN Return(Whole(0)) ELSE MedianOf(numbers)

median(numbers) ==
    IF Len(numbers) = 0 THEN Return(Whole(0)) ELSE MedianOf(SortAsc(numbers))

(***************************************************************************)
(* mode.  frequency is an object keyed by the numbers, and the key of a    *)
(* number is the string that Number.prototype.toString gives it; a string  *)
(* is the sequence of its characters.  Besides the fractions, a number may *)
(* be [neg, digits, e]: the integer -/+ d1.d2d3... * 10^e with the decimal *)
(* digits d1 d2 d3 ... (d1 and the last digit are not 0), for the integers *)
(* too large to be the numerator of a fraction.                            *)
(***************************************************************************)
Sci(neg, digits, e) == [neg |-> neg, digits |-> digits, e |-> e]

DecimalDigits == <<"0", "1", "2", "3", "4", "5", "6", "7", "8", "9">>

DigitChar(d) == DecimalDigits[d + 1]

IsDigitChar(c) == \E d \in 0 .. 9 : DecimalDigits[d + 1] = c

DigitValue(c) == CHOOSE d \in 0 .. 9 : DecimalDigits[d + 1] = c

RECURSIVE NatToString(_)
NatToString(n) ==
    IF n < 10 THEN <<DigitChar(n)>> ELSE NatToString(n \div 10) \o <<DigitChar(n % 10)>>

\* Number.prototype.toString writes a number of 10^ExponentThreshold or more
\* with an exponent: 1e21 is '1e+21' and 1e20 is '100000000000000000000'.
ExponentThreshold == 21

\* String(x) for an integer or a half-integer fraction and for a large integer
NumberToString(x) ==
    IF "e" \in DOMAIN x
    THEN (IF x.neg THEN <<"-">> ELSE <<>>)
         \o (IF x.e < ExponentThreshold
             THEN [i \in 1 .. x.e + 1 |->
                      IF i <= Len(x.digits) THEN DigitChar(x.digits[i]) ELSE "0"]
             ELSE <<DigitChar(x.digits[1])>>
                  \o (IF Len(x.digits) > 1
                      THEN <<".">> \o [i \in 1 .. Len(x.digits) - 1 |-> DigitChar(x.digits[i + 1])]
                      ELSE <<>>)
                  \o <<"e", "+">> \o NatToString(x.e))
    ELSE (IF x.n < 0 THEN <<"-">> ELSE <<>>)
         \o NatToString(Abs(x.n) \div x.d)
         \o (IF x.d = 2 THEN <<".", "5">> ELSE <<>>)

\* The number of leading digits of a string
RECURSIVE DigitRun(_, _)
DigitRun(chars, i) ==
    IF i <= Len(chars) /\ IsDigitChar(chars[i]) THEN DigitRun(chars, i + 1) ELSE i - 1

RECURSIVE NatValue(_)
NatValue(digits) ==
    IF Len(digits) = 0 THEN 0
    ELSE 10 * NatValue(SubSeq(digits, 1, Len(digits) - 1)) + DigitValue(digits[Len(digits)])

RECURSIVE StripZeros(_)
StripZeros(digits) ==
    IF Len(digits) > 1 /\ digits[Len(digits)] = 0
    THEN StripZeros(SubSeq(digits, 1, Len(digits) - 1))
    ELSE digits

\* The longest run of digits whose value is written as a fraction
MaxSmallDigits == 9

\* parseInt(chars): an optional sign, then the leading digits up to the first
\* character that is not a digit; NaN when there is no digit.
ParseInt(chars) ==
    LET neg == Len(chars) > 0 /\ chars[1] = "-"
        body == IF neg THEN Tail(chars) ELSE chars
        run == DigitRun(body, 1)
        digits == SubSeq(body, 1, run)
    IN  IF run = 0 THEN NaNRat
        ELSE IF run <= MaxSmallDigits
        THEN Whole(IF neg THEN -NatValue(digits) ELSE NatValue(digits))
        ELSE Sci(neg, StripZeros([i \in 1 .. run |-> DigitValue(digits[i])]), run - 1)

\* The loop of mode.  Its state is [count, keys, maxFreq]: the count of each
\* key of frequency, the keys in the order they were first written, and
\* maxFreq.
RECURSIVE Tally(_, _, _)
Tally(numbers, i, st) ==
    IF i > Len(numbers) THEN st
    ELSE LET num == NumberToString(numbers[i])
             seen == num \in DOMAIN st.count
             c == (IF seen THEN st.count[num] ELSE 0) + 1
         IN  Tally(numbers, i + 1,
                   [count |-> [k \in DOMAIN st.count \cup {num} |->
                                  IF k = num THEN c ELSE st.count[k]],
                    keys |-> IF seen THEN st.keys ELSE Append(st.keys, num),
                    maxFreq |-> IF c > st.maxFreq THEN c ELSE st.maxFreq])

\* 2^32 - 1: the keys that are array indices are the integers below it.
ArrayIndexLimit == <<"4", "2", "9", "4", "9", "6", "7", "2", "9", "5">>

\* a < b for two strings of digits with no leading zero
RECURSIVE LexLt(_, _, _)
LexLt(a, b, i) ==
    IF i > Len(a) THEN FALSE
    ELSE IF a[i] # b[i] THEN DigitValue(a[i]) < DigitValue(b[i])
    ELSE LexLt(a, b, i + 1)

KeyLt(a, b) == Len(a) < Len(b) \/ (Len(a) = Len(b) /\ LexLt(a, b, 1))

IsIndexKey(k) ==
    /\ Len(k) > 0
    /\ \A i \in 1 .. Len(k) : IsDigitChar(k[i])
    /\ Len(k) = 1 \/ k[1] # "0"
    /\ KeyLt(k, ArrayIndexLimit)

RECURSIVE InsertKey(_, _)
InsertKey(sorted, k) ==
    IF sorted = <<>> THEN <<k>>
    ELSE IF KeyLt(k, Head(sorted)) THEN <<k>> \o sorted
    ELSE <<Head(sorted)>> \o InsertKey(Tail(sorted), k)

RECURSIVE SortKeys(_)
SortKeys(keys) ==
    IF keys = <<>> THEN <<>>
    ELSE InsertKey(SortKeys(SubSeq(keys, 1, Len(keys) - 1)), keys[Len(keys)])

\* Object.entries lists the keys that are array indices in ascending order,
\* then the other keys in the order they were written.
ObjectKeys(keys) ==
    SortKeys(SelectSeq(keys, IsIndexKey)) \o SelectSeq(keys, LAMBDA k : ~IsIndexKey(k))

mode(numbers) ==
    IF Len(numbers) = 0 THEN Return(<<>>)
    ELSE LET st == Tally(numbers, 1, [count |-> <<>>, keys |-> <<>>, maxFreq |-> 0])
             most == SelectSeq(ObjectKeys(st.keys), LAMBDA k : st.count[k] = st.maxFreq)
         IN  Return([i \in 1 .. Len(most) |-> ParseInt(most[i])])

SquaredDiffs(numbers, avg) ==
    [i \in 1 .. Len(numbers) |->
        LET diff == RatSub(numbers[i], avg) IN RatMul(diff, diff)]

standardDeviation(numbers) ==
    IF Len(numbers) = 0 THEN Return(Whole(0))
    ELSE Return(MathSqrt(average(SquaredDiffs(numbers, average(numbers).val)).val))

variance(numbers) ==
    IF Len(numbers) = 0 THEN Return(Whole(0))
    ELSE Return(average(SquaredDiffs(numbers, average(numbers).val)).val)

StatFns == {"sum", "average", "median", "mode", "standardDeviation", "variance"}

Elems == {Whole(i) : i \in -MaxElem .. MaxElem}

\* The sequences of the tests, and every sequence of at most MaxLen elements.
StatInputs ==
    {<<Whole(1), Whole(2), Whole(3), Whole(4)>>, <<Whole(1), Whole(2), Whole(3), Whole(4), Whole(5)>>}
    \cup UNION {[1 .. len -> Elems] : len \in 0 .. MaxLen}

\* Integers of 10^20 and more
LargeElems ==
    {Sci(FALSE, <<1>>, ExponentThreshold - 1), Sci(FALSE, <<1>>, ExponentThreshold),
     Sci(TRUE, <<1>>, ExponentThreshold), Sci(FALSE, <<2, 5>>, ExponentThreshold)}

\* What mode is given: the sequences of the other aggregates, those of its
\* tests, and sequences with large integers.
ModeInputs ==
    StatInputs
    \cup {<<Whole(1), Whole(2), Whole(2), Whole(3), Whole(3), Whole(3)>>,
          <<Whole(1), Whole(1), Whole(2), Whole(2)>>}
    \cup UNION {[1 .. len -> LargeElems \cup {Whole(1)}] : len \in 1 .. MaxLen}

InitStats ==
    /\ pc = "call"
    /\ fn \in StatFns
    /\ args \in IF fn = "mode" THEN ModeInputs ELSE StatInputs
    /\ out = Pending
    /\ heap = NoHeap
    /\ heap0 = NoHeap

CallSum ==
    /\ pc = "call" /\ fn = "sum"
    /\ out' = sum(args)
    /\ pc' = "done"
    /\ UNCHANGED <<fn, args, heap, heap0>>

CallAverage ==
    /\ pc = "call" /\ fn = "average"
    /\ out' = average(args)
    /\ pc' = "done"
    /\ UNCHANGED <<fn, args, heap, heap0>>

CallMedian ==
    /\ pc = "call" /\ fn = "median"
    /\ out' = median(args)
    /\ pc' = "done"
    /\ UNCHANGED <<fn, args, heap, heap0>>

CallMode ==
    /\ pc = "call" /\ fn = "mode"
    /\ out' = mode(args)
    /\ pc' = "done"
    /\ UNCHANGED <<fn, args, heap, heap0>>

CallStandardDeviation ==
    /\ pc = "call" /\ fn = "standardDeviation"
    /\ out' = standardDeviation(args)
    /\ pc' = "done"
    /\ UNCHANGED <<fn, args, heap, heap0>>

CallVariance ==
    /\ pc = "call" /\ fn = "variance"
    /\ out' = variance(args)
    /\ pc' = "done"
    /\ UNCHANGED <<fn, args, heap, heap0>>

NextStats ==
    \/ CallSum
    \/ CallAverage
    \/ CallMedian
    \/ CallMode
    \/ CallStandardDeviation
    \/ CallVariance

SpecStats == InitStats /\ [][NextStats]_vars

(* C4: on the empty sequence every aggregate returns: sum, average, median, *)
(* variance and standardDeviation return 0 and mode returns the empty       *)
(* sequence.                                                                *)
C4_EmptyAggregates ==
    (pc = "done" /\ fn \in StatFns /\ args = <<>>) =>
        IF fn = "mode" THEN out = Return(<<>>) ELSE out = Return(Whole(0))

C4_Witness ==
    pc = "done" /\ fn = "average" /\ args = <<>> /\ out.status = "returned" /\ out.val.n = 0

\* The number of elements of xs that are below v, and that are at most v.
Below(xs, v) == Cardinality({i \in 1 .. Len(xs) : RatLt(xs[i], v)})

AtMost(xs, v) == Cardinality({i \in 1 .. Len(xs) : ~RatLt(v, xs[i])})

\* v is the k-th element of xs in ascending order.
IsKth(xs, v, k) ==
    /\ \E i \in 1 .. Len(xs) : xs[i] = v
    /\ Below(xs, v) <= k - 1
    /\ AtMost(xs, v) >= k

Swap(xs, i, j) == [xs EXCEPT ![i] = xs[j], ![j] = xs[i]]

(* C5: for a non-empty sequence in any order, median returns the middle     *)
(* element in ascending order when the length is odd and the average of     *)
(* the two middle elements in ascending order when it is even; exchanging   *)
(* two elements of the input does not change the result.                    *)
C5_MedianMiddle ==
    (pc = "done" /\ fn = "median" /\ Len(args) > 0) =>
        LET n == Len(args)
        IN  /\ out.status = "returned"
            /\ IF n % 2 = 1
               THEN IsKth(args, out.val, (n + 1) \div 2)
               ELSE \E i, j \in 1 .. n :
                        /\ IsKth(args, args[i], n \div 2)
                        /\ IsKth(args, args[j], n \div 2 + 1)
                        /\ out.val = RatDiv(RatAdd(args[i], args[j]), 2)
            /\ \A i, j \in 1 .. n : median(Swap(args, i, j)) = out

C5_Witness ==
    /\ pc = "done" /\ fn = "median"
    /\ args = <<Whole(1), Whole(2), Whole(3), Whole(4)>>
    /\ out.val = Rat(5, 2)

(***************************************************************************)
(* validation.  A string is the sequence of its characters.                *)
(***************************************************************************)
Whitespace == {" ", "\n", "\t"}

\* [^\s@]
Ordinary(c) == c \notin Whitespace /\ c # "@"

\* [^\s@]+ matches the characters from..to of s exactly
OrdinaryRun(s, from, to) == from <= to /\ \A k \in from .. to : Ordinary(s[k])

\* /^[^\s@]+@[^\s@]+\.[^\s@]+$/.test(s): the string matches when it splits at
\* some "@" and some later "." into three runs.  With escaped false the
\* pattern's dot is a bare . and accepts every character but a line end.
EmailRegexTest(s, escaped) ==
    \E i, j \in 1 .. Len(s) :
        /\ i < j
        /\ s[i] = "@"
        /\ IF escaped THEN s[j] = "." ELSE s[j] # "\n"
        /\ OrdinaryRun(s, 1, i - 1)
        /\ OrdinaryRun(s, i + 1, j - 1)
        /\ OrdinaryRun(s, j + 1, Len(s))

isValidEmail_anychar(email) == Return(EmailRegexTest(email, FALSE))

isValidEmail(email) == Return(EmailRegexTest(email, TRUE))

EmailChars == {"a", "@", ".", " ", "\n"}

UserAtExampleCom ==
    <<"u", "s", "e", "r", "@", "e", "x", "a", "m", "p", "l", "e", ".", "c", "o", "m">>

EmailInputs ==
    {UserAtExampleCom} \cup UNION {[1 .. len -> EmailChars] : len \in 0 .. MaxEmailLen}

InitEmail ==
    /\ pc = "call"
    /\ fn = "isValidEmail"
    /\ args \in EmailInputs
    /\ out = Pending
    /\ heap = NoHeap
    /\ heap0 = NoHeap

CallIsValidEmail ==
    /\ pc = "call" /\ fn = "isValidEmail"
    /\ out' = isValidEmail(args)
    /\ pc' = "done"
    /\ UNCHANGED <<fn, args, heap, heap0>>

NextEmail == CallIsValidEmail

SpecEmail == InitEmail /\ [][NextEmail]_vars

\* The positions of c in s.
Positions(s, c) == {k \in 1 .. Len(s) : s[k] = c}

(* C9: isValidEmail(s) is false when s holds no "@"; it is true exactly     *)
(* when s holds no whitespace and exactly one "@", which is not its first   *)
(* character, and the part after the "@" holds a "." that is neither the    *)
(* first nor the last character of that part.                               *)
C9_EmailShape ==
    (pc = "done" /\ fn = "isValidEmail") =>
        LET s == args
            ats == Positions(s, "@")
            at == CHOOSE k \in ats : TRUE
        IN  /\ out.status = "returned"
            /\ ats = {} => out.val = FALSE
            /\ out.val = TRUE <=>
                  /\ \A k \in 1 .. Len(s) : s[k] \notin Whitespace
                  /\ Cardinality(ats) = 1
                  /\ at > 1
                  /\ \E k \in Positions(s, ".") : at + 1 < k /\ k < Len(s)

C9_Witness ==
    pc = "done" /\ fn = "isValidEmail" /\ args = UserAtExampleCom /\ out.val = TRUE

(***************************************************************************)
(* validation: isValidCreditCard.                                          *)
(***************************************************************************)
MinCardLen == 13

MaxCardLen == 19

DigitChars == <<"0", "1", "2", "3", "4", "5", "6", "7", "8", "9">>

IsDigit(c) == \E d \in 1 .. 10 : DigitChars[d] = c

\* parseInt of one digit character
ParseDigit(c) == (CHOOSE d \in 1 .. 10 : DigitChars[d] = c) - 1

\* cardNumber.replace(/\s/g, '')
RemoveWhitespace_spaces(str) == SelectSeq(str, LAMBDA c : c # " ")

RemoveWhitespace(str) == SelectSeq(str, LAMBDA c : c \notin Whitespace)

\* /^\d{13,19}$/.test(str)
CardRegexTest(str) ==
    /\ MinCardLen <= Len(str) /\ Len(str) <= MaxCardLen
    /\ \A k \in 1 .. Len(str) : IsDigit(str[k])

\* One turn of the loop on a digit: doubled, and 9 taken off a result above
\* 9 when fold is set, as the code does.
LuhnDigit(digit, isEven, fold) ==
    IF isEven
    THEN IF 2 * digit > 9 /\ fold THEN 2 * digit - 9 ELSE 2 * digit
    ELSE digit

\* for (let i = cleanNumber.length - 1; i >= 0; i--): position i of the code
\* is i + 1 here.
RECURSIVE LuhnLoop(_, _, _, _, _)
LuhnLoop(cleanNumber, i, total, isEven, fold) ==
    IF i < 1 THEN total
    ELSE LuhnLoop(cleanNumber, i - 1,
                  total + LuhnDigit(ParseDigit(cleanNumber[i]), isEven, fold),
                  ~isEven, fold)

LuhnCheck(cardNumber, fold) ==
    LET cleanNumber == RemoveWhitespace(cardNumber)
    IN  IF ~CardRegexTest(cleanNumber) THEN Return(FALSE)
        ELSE Return(LuhnLoop(cleanNumber, Len(cleanNumber), 0, FALSE, fold) % 10 = 0)

isValidCreditCard_nofold(cardNumber) == LuhnCheck(cardNumber, FALSE)

isValidCreditCard(cardNumber) == LuhnCheck(cardNumber, TRUE)

\* The leading digits of the card numbers of the model: the first len digits
\* of a fixed run that holds every digit.
CardStem(len) ==
    SubSeq(<<"4", "9", "0", "5", "1", "8", "2", "7", "3", "6",
             "4", "9", "0", "5", "1", "8", "2", "7", "3", "6">>, 1, len)

\* The string str with the character c put in after its first pos characters
InsertAt(str, pos, c) == SubSeq(str, 1, pos) \o <<c>> \o SubSeq(str, pos + 1, Len(str))

\* Card numbers whose last digit takes every value, with one character that
\* is not a digit (white space or not) put in at every place.
CardVariants ==
    UNION {{InsertAt(CardStem(len - 1) \o <<DigitChars[d]>>, pos, c) :
                d \in 1 .. 10, pos \in {0, 1, len - 1, len}, c \in {" ", "\t", "x", "-"}} :
           len \in MinCardLen - 1 .. MaxCardLen + 1}

\* Card numbers one digit shorter than the pattern accepts to one digit
\* longer, whose last FreeDigits digits take every value; and two strings
\* that are not all digits.
CardInputs ==
    {CardStem(len - FreeDigits) \o tail :
        len \in MinCardLen - 1 .. MaxCardLen + 1,
        tail \in [1 .. FreeDigits -> {DigitChars[d] : d \in 1 .. 10}]}
    \cup {CardStem(4) \o <<" ">> \o CardStem(4) \o <<" ">> \o CardStem(4) \o <<" ">> \o CardStem(4),
          CardStem(12) \o <<"x">>}
    \cup CardVariants

InitCard ==
    /\ pc = "call"
    /\ fn = "isValidCreditCard"
    /\ args \in CardInputs
    /\ out = Pending
    /\ heap = NoHeap
    /\ heap0 = NoHeap

CallIsValidCreditCard ==
    /\ pc = "call" /\ fn = "isValidCreditCard"
    /\ out' = isValidCreditCard(args)
    /\ pc' = "done"
    /\ UNCHANGED <<fn, args, heap, heap0>>

NextCard == CallIsValidCreditCard

SpecCard == InitCard /\ [][NextCard]_vars

(* C8: when isValidCreditCard returns true for a string of 13 to 19 digits, *)
(* it returns false for every string that differs from it in one digit.     *)
C8_SingleDigitChange ==
    (/\ pc = "done" /\ fn = "isValidCreditCard"
     /\ CardRegexTest(args)
     /\ out = Return(TRUE)) =>
        \A pos \in 1 .. Len(args) : \A d \in 1 .. 10 :
            DigitChars[d] # args[pos] =>
                isValidCreditCard([args EXCEPT ![pos] = DigitChars[d]]) = Return(FALSE)

C8_Witness ==
    /\ pc = "done" /\ fn = "isValidCreditCard"
    /\ Len(args) = 16 /\ CardRegexTest(args)
    /\ out = Return(TRUE)

(***************************************************************************)
(* object.  The heap is the sequence of the objects that exist; an object  *)
(* is known by its place in it, and a new object is appended.  A value     *)
(* held in a property or passed as an argument is [kind, v]: a number      *)
(* v, null, undefined, or a reference to the object at place v.            *)
(***************************************************************************)
NumV(i) == [kind |-> "num", v |-> i]

NullV == [kind |-> "null", v |-> 0]

UndefV == [kind |-> "undef", v |-> 0]

Ref(id) == [kind |-> "ref", v |-> id]

TypeofV(val) ==
    CASE val.kind \in {"num", "nan"} -> "number"
      [] val.kind = "undef" -> "undefined"
      [] val.kind = "str" -> "string"
      [] val.kind = "fn" -> "function"
      [] OTHER -> "object"          \* an object, an array, and null

NoProps == [k \in {} |-> UndefV]

Obj(props) == [cls |-> "Object", props |-> props]

\* key in current, for a reference current
HasKey(h, current, key) == key \in DOMAIN h[current.v].props

\* current[key]
GetProp(h, current, key) ==
    IF HasKey(h, current, key) THEN h[current.v].props[key] ELSE UndefV

\* current[key] = val
PutProp(h, current, key, val) ==
    [h EXCEPT ![current.v].props =
        [k \in DOMAIN @ \cup {key} |-> IF k = key THEN val ELSE @[k]]]

\* The state of a call on the heap: the heap, whether a TypeError was
\* thrown, and the value it returns.
Run(h, val) == [heap |-> h, thrown |-> FALSE, err |-> "none", val |-> val]

Fail(h) == [heap |-> h, thrown |-> TRUE, err |-> "TypeError", val |-> UndefV]

\* The loop of set over keys[0 .. length - 2] (places 1 .. Len - 1 here) and
\* the assignment of the last key.  keys is path.split('.'); an empty
\* segment is falsy.  With "in" and a property write on null the call throws.
RECURSIVE SetLoop(_, _, _, _, _, _)
SetLoop(h, result, current, keys, i, value) ==
    IF i <= Len(keys) - 1
    THEN LET key == keys[i]
         IN  IF key = ""
             THEN SetLoop(h, result, current, keys, i + 1, value)
             ELSE IF current.kind # "ref"
             THEN Fail(h)
             ELSE LET fresh == ~HasKey(h, current, key)
                                  \/ TypeofV(GetProp(h, current, key)) # "object"
                      h1 == IF fresh
                            THEN PutProp(Append(h, Obj(NoProps)), current, key, Ref(Len(h) + 1))
                            ELSE h
                  IN  SetLoop(h1, result, GetProp(h1, current, key), keys, i + 1, value)
    ELSE LET lastKey == keys[Len(keys)]
         IN  IF lastKey = ""
             THEN Run(h, result)
             ELSE IF current.kind # "ref"
             THEN Fail(h)
             ELSE Run(PutProp(h, current, lastKey, value), result)

\* const result = { ...obj }: a new object with the own properties of obj.
Spread(h, obj) == Append(h, Obj(h[obj.v].props))

set(obj, path, value) ==
    LET h1 == Spread(heap, obj)
        result == Ref(Len(h1))
    IN  SetLoop(h1, result, result, path, 1, value)

Keys == {"a", "b"}

\* The objects with keys among Keys and values among vals.
PropsOver(vals) ==
    UNION {[ks -> vals] : ks \in SUBSET Keys}

\* The caller's objects: obj at place 1, which may hold the object at place
\* 2, which may hold the object at place 3.
ObjectHeaps ==
    {<<Obj(p1), Obj(p2), Obj(p3)>> :
        p1 \in PropsOver({NumV(1), NullV, Ref(2)}),
        p2 \in PropsOver({NumV(1), Ref(3)}),
        p3 \in {NoProps, [k \in {"a"} |-> NumV(1)]}}

\* path.split('.') for the paths of at most MaxPathLen segments
Paths == UNION {[1 .. len -> Keys \cup {""}] : len \in 1 .. MaxPathLen}

InitObject ==
    /\ pc = "call"
    /\ fn = "set"
    /\ heap \in ObjectHeaps
    /\ heap0 = heap
    /\ args \in [obj : {Ref(1)}, path : Paths, value : {NumV(7)}]
    /\ out = Pending

CallSet ==
    /\ pc = "call" /\ fn = "set"
    /\ LET r == set(args.obj, args.path, args.value)
       IN  /\ heap' = r.heap
           /\ out' = IF r.thrown THEN Throw("TypeError") ELSE Return(r.val)
    /\ pc' = "done"
    /\ UNCHANGED <<fn, args, heap0>>

NextObject == CallSet

SpecObject == InitObject /\ [][NextObject]_vars

\* Every object that existed when the call started is as it was.
InputsUnchanged == \A id \in 1 .. Len(heap0) : heap[id] = heap0[id]

(* C10: set returns a new object and changes no object of the caller, at    *)
(* any depth: after set(obj, "a.b", value) the object obj.a has the keys    *)
(* and values it had before.                                                *)
C10_SetIsPure ==
    (pc = "done" /\ fn = "set" /\ out.status = "returned") =>
        /\ out.val.kind = "ref" /\ out.val.v > Len(heap0)
        /\ InputsUnchanged

(***************************************************************************)
(* Numbers as the code computes with them: IEEE 754 double precision.      *)
(* A natural number of any size is the sequence of its digits in base      *)
(* LimbBase, least significant first, with no leading zero digit (0 is the *)
(* empty sequence).  A positive double is [m, e] with value m * 2^e, where *)
(* m is such a natural number of exactly MantissaBits bits.                *)
(***************************************************************************)
LimbBits == 14

LimbBase == 16384

MantissaBits == 53

RECURSIVE Pow2(_)
Pow2(k) == IF k = 0 THEN 1 ELSE 2 * Pow2(k - 1)

RECURSIVE BigFromInt(_)
BigFromInt(v) == IF v = 0 THEN <<>> ELSE <<v % LimbBase>> \o BigFromInt(v \div LimbBase)

RECURSIVE Trim(_)
Trim(x) ==
    IF x # <<>> /\ x[Len(x)] = 0 THEN Trim(SubSeq(x, 1, Len(x) - 1)) ELSE x

Zeros(count) == [i \in 1 .. count |-> 0]

Limb(x, i) == IF i <= Len(x) THEN x[i] ELSE 0

\* x + y
RECURSIVE BigAddFrom(_, _, _, _)
BigAddFrom(x, y, i, carry) ==
    IF i > Len(x) /\ i > Len(y)
    THEN IF carry = 0 THEN <<>> ELSE <<carry>>
    ELSE LET t == Limb(x, i) + Limb(y, i) + carry
         IN  <<t % LimbBase>> \o BigAddFrom(x, y, i + 1, t \div LimbBase)

BigAdd(x, y) == BigAddFrom(x, y, 1, 0)

\* x * c for a natural number c < LimbBase * LimbBase
RECURSIVE BigMulSmallFrom(_, _, _, _)
BigMulSmallFrom(x, c, i, carry) ==
    IF i > Len(x)
    THEN BigFromInt(carry)
    ELSE LET t == x[i] * c + carry
         IN  <<t % LimbBase>> \o BigMulSmallFrom(x, c, i + 1, t \div LimbBase)

BigMulSmall(x, c) == IF c = 0 THEN <<>> ELSE BigMulSmallFrom(x, c, 1, 0)

\* x * y
RECURSIVE BigMulFrom(_, _, _)
BigMulFrom(x, y, i) ==
    IF i > Len(x) THEN <<>>
    ELSE BigAdd(Trim(Zeros(i - 1) \o BigMulSmall(y, x[i])), BigMulFrom(x, y, i + 1))

BigMul(x, y) == BigMulFrom(x, y, 1)

\* x divided by a natural number d, 0 < d < LimbBase: quotient and remainder
RECURSIVE BigDivSmallFrom(_, _, _, _)
BigDivSmallFrom(x, d, i, rem) ==
    IF i < 1 THEN [q |-> <<>>, r |-> rem]
    ELSE LET t == rem * LimbBase + x[i]
             rest == BigDivSmallFrom(x, d, i - 1, t % d)
         IN  [q |-> Append(rest.q, t \div d), r |-> rest.r]

BigDivSmall(x, d) ==
    LET res == BigDivSmallFrom(x, d, Len(x), 0)
    IN  [q |-> Trim(res.q), r |-> res.r]

RECURSIVE BitLenOfLimb(_)
BitLenOfLimb(v) == IF v = 0 THEN 0 ELSE 1 + BitLenOfLimb(v \div 2)

\* The number of bits of x
BitLen(x) == IF x = <<>> THEN 0 ELSE (Len(x) - 1) * LimbBits + BitLenOfLimb(x[Len(x)])

\* Bit b of x, bit 0 being the lowest
Bit(x, b) == (Limb(x, b \div LimbBits + 1) \div Pow2(b % LimbBits)) % 2

\* Some bit of x below bit b is set
LowBitsSet(x, b) ==
    \/ \E i \in 1 .. b \div LimbBits : Limb(x, i) # 0
    \/ Limb(x, b \div LimbBits + 1) % Pow2(b % LimbBits) # 0

\* x with its lowest s bits dropped
ShiftRight(x, s) ==
    LET drop == s \div LimbBits
    IN  IF drop >= Len(x) THEN <<>>
        ELSE BigDivSmall(SubSeq(x, drop + 1, Len(x)), Pow2(s % LimbBits)).q

\* x * 2^s
ShiftLeft(x, s) ==
    IF x = <<>> THEN <<>>
    ELSE Zeros(s \div LimbBits) \o BigMulSmall(x, Pow2(s % LimbBits))

\* The double nearest to big * 2^e, made a little larger when sticky is set
\* (a remainder was dropped below the lowest bit of big): round to nearest,
\* ties to even.
RoundToDouble(big, e, sticky) ==
    LET len == BitLen(big)
    IN  IF len <= MantissaBits
        THEN [m |-> ShiftLeft(big, MantissaBits - len), e |-> e - (MantissaBits - len)]
        ELSE LET s == len - MantissaBits
                 q == ShiftRight(big, s)
                 guard == Bit(big, s - 1) = 1
                 rest == sticky \/ LowBitsSet(big, s - 1)
                 up == guard /\ (rest \/ Bit(q, 0) = 1)
                 m == IF up THEN BigAdd(q, <<1>>) ELSE q
             IN  IF BitLen(m) > MantissaBits
                 THEN [m |-> ShiftRight(m, 1), e |-> e + s + 1]
                 ELSE [m |-> m, e |-> e + s]

\* The double that holds the integer v > 0
DoubleFromInt(v) == RoundToDouble(BigFromInt(v), 0, FALSE)

\* a / b for integers 0 < a and 0 < b < LimbBase: the quotient is taken to
\* 5 * LimbBits binary places and rounded.
DoubleDivInts(a, b) ==
    LET qr == BigDivSmall(Zeros(5) \o BigFromInt(a), b)
    IN  RoundToDouble(qr.q, -(5 * LimbBits), qr.r # 0)

\* x * y
DoubleMul(x, y) == RoundToDouble(BigMul(x.m, y.m), x.e + y.e, FALSE)

\* Math.round(x): the nearest integer, a half going up
MathRound(x) ==
    IF x.e >= 0 THEN ShiftLeft(x.m, x.e)
    ELSE LET s == -x.e
             whole == ShiftRight(x.m, s)
         IN  IF Bit(x.m, s - 1) = 1 THEN BigAdd(whole, <<1>>) ELSE whole

(***************************************************************************)
(* math: binomial.  Its arguments are primitives; it returns the integer   *)
(* that Math.round gives, as a natural number of any size.                 *)
(***************************************************************************)
\* for (let i = 0; i < k; i++) result *= (n - i) / (i + 1), on the state
\* st = [i, result] of the loop
RECURSIVE BinomialLoop(_, _, _)
BinomialLoop(n, k, st) ==
    IF st.i < k
    THEN BinomialLoop(n, k, [i |-> st.i + 1,
                             result |-> DoubleMul(st.result, DoubleDivInts(n - st.i, st.i + 1))])
    ELSE st.result

BinomialBody(n, k) ==
    IF k > n THEN Return(<<>>)
    ELSE IF k = 0 \/ k = n THEN Return(<<1>>)
    ELSE LET kk == IF k <= n - k THEN k ELSE n - k
         IN  Return(MathRound(BinomialLoop(n, kk, [i |-> 0, result |-> DoubleFromInt(1)])))

binomial_nosigncheck(n, k) ==
    IF typeof(n) # "number" \/ typeof(k) # "number"
    THEN Throw("TypeError")
    ELSE IF ~NumberIsInteger(n) \/ ~NumberIsInteger(k)
    THEN Throw("Error")
    ELSE BinomialBody(n.num2 \div 2, k.num2 \div 2)

binomial(n, k) ==
    IF typeof(n) # "number" \/ typeof(k) # "number"
    THEN Throw("TypeError")
    ELSE IF ~NumberIsInteger(n) \/ ~NumberIsInteger(k) \/ JsLt(n, Num(0)) \/ JsLt(k, Num(0))
    THEN Throw("Error")
    ELSE BinomialBody(n.num2 \div 2, k.num2 \div 2)

CallBinomial ==
    /\ pc = "call" /\ fn = "binomial"
    /\ out' = binomial(args[1], args[2])
    /\ pc' = "done"
    /\ UNCHANGED <<fn, args, heap, heap0>>

\* binomial(n, k) for all integers 0 <= k <= n <= MaxN
InitBinomial ==
    /\ pc = "call"
    /\ fn = "binomial"
    /\ args \in {<<Num(n), Num(k)>> : n \in 0 .. MaxN, k \in 0 .. MaxN}
    /\ args[2].num2 <= args[1].num2
    /\ out = Pending
    /\ heap = NoHeap
    /\ heap0 = NoHeap

NextBinomial == CallBinomial

SpecBinomial == InitBinomial /\ [][NextBinomial]_vars

\* lo * (lo + 1) * ... * hi as a natural number of any size (1 when lo > hi)
RECURSIVE Product(_, _)
Product(lo, hi) ==
    IF lo > hi THEN <<1>>
    ELSE IF lo = hi THEN BigFromInt(lo)
    ELSE LET mid == (lo + hi) \div 2
         IN  BigMul(Product(lo, mid), Product(mid + 1, hi))

\* n!
Factorial(n) == Product(1, n)

(* C6: for integers 0 <= k <= n, binomial(n, k) is the binomial coefficient: *)
(* binomial(n, k) * k! * (n - k)! = n!.  So binomial(n, 0) and              *)
(* binomial(n, n) are 1 and binomial(n, k) = binomial(n, n - k).            *)
C6_BinomialExact ==
    (pc = "done" /\ fn = "binomial" /\ NumberIsInteger(args[1]) /\ NumberIsInteger(args[2])
       /\ JsLe(Num(0), args[2]) /\ JsLe(args[2], args[1])) =>
        LET n == args[1].num2 \div 2
            k == args[2].num2 \div 2
        IN  /\ out.status = "returned"
            /\ BigMul(out.val, BigMul(Factorial(k), Factorial(n - k))) = Factorial(n)
            /\ (k = 0 \/ k = n) => out.val = <<1>>
            /\ binomial(Num(n), Num(n - k)) = out

\* binomial on small integers, negative ones, and the values it refuses
BinomialValues ==
    {Num(i) : i \in -2 .. MaxSmallN} \cup {Half(1), Half(-2), NaN, Str(2), Null, Undefined}

InitBinomialArgs ==
    /\ pc = "call"
    /\ fn = "binomial"
    /\ args \in BinomialValues \X BinomialValues
    /\ out = Pending
    /\ heap = NoHeap
    /\ heap0 = NoHeap

SpecBinomialArgs == InitBinomialArgs /\ [][NextBinomial]_vars

(* C7: binomial(n, k) raises an error when n or k is negative or is not an  *)
(* integer, and returns 0, raising nothing, when both are integers >= 0     *)
(* and k > n.                                                               *)
C7_BinomialRefuses ==
    (pc = "done" /\ fn = "binomial") =>
        /\ (\E i \in 1 .. 2 : ~NumberIsInteger(args[i]) \/ JsLt(args[i], Num(0)))
              => out.status = "thrown"
        /\ ((\A i \in 1 .. 2 : NumberIsInteger(args[i]) /\ JsLe(Num(0), args[i]))
               /\ JsGt(args[2], args[1]))
              => out = Return(<<>>)

C7_Witness ==
    /\ pc = "done" /\ fn = "binomial"
    /\ args = <<Num(5), Num(-1)>>
    /\ out = Throw("Error")

(***************************************************************************)
(* math: randomInt.  The repository holds two definitions of it.  k is     *)
(* the draw: Math.random() gives k / RandomResolution.                     *)
(***************************************************************************)
\* Math.random() gives k / RandomResolution for some k of RandomValues, a
\* number of [0, 1); FloorRandomTimes is Math.floor(Math.random() * n).
RandomValues == 0 .. RandomResolution - 1

FloorRandomTimes(k, n) == (k * n) \div RandomResolution

\* Math.floor(Math.random() * (max - min + 1)) + min on numbers
RandomIntBody(min, max, k) ==
    IF min.nan \/ max.nan
    THEN Return(NaN)
    ELSE Return([type |-> "number", nan |-> FALSE,
                 num2 |-> 2 * ((k * (max.num2 - min.num2 + 2)) \div (2 * RandomResolution))
                          + min.num2])

randomInt(min, max, k) ==
    IF typeof(min) # "number" \/ typeof(max) # "number"
    THEN Throw("TypeError")
    ELSE IF ~NumberIsInteger(min) \/ ~NumberIsInteger(max)
    THEN Throw("Error")
    ELSE IF JsGt(min, max)
    THEN Throw("Error")
    ELSE RandomIntBody(min, max, k)

\* The second definition: no check of the arguments.
randomInt2(min, max, k) == RandomIntBody(min, max, k)

RandomIntBy(f, min, max, k) ==
    IF f = "randomInt" THEN randomInt(min, max, k) ELSE randomInt2(min, max, k)

InitRandom ==
    /\ pc = "call"
    /\ \/ fn = "randomInt" /\ args \in ClampValues \X ClampValues
       \/ fn = "randomInt2" /\ args \in (Numbers \cup {NaN}) \X (Numbers \cup {NaN})
    /\ out = Pending
    /\ heap = NoHeap
    /\ heap0 = NoHeap

CallRandomInt ==
    /\ pc = "call" /\ fn = "randomInt"
    /\ \E k \in RandomValues : out' = randomInt(args[1], args[2], k)
    /\ pc' = "done"
    /\ UNCHANGED <<fn, args, heap, heap0>>

CallRandomInt2 ==
    /\ pc = "call" /\ fn = "randomInt2"
    /\ \E k \in RandomValues : out' = randomInt2(args[1], args[2], k)
    /\ pc' = "done"
    /\ UNCHANGED <<fn, args, heap, heap0>>

NextRandom ==
    \/ CallRandomInt
    \/ CallRandomInt2

SpecRandom == InitRandom /\ [][NextRandom]_vars

(* C18: for integers min <= max and every value of [0, 1) that the random  *)
(* source returns, randomInt(min, max) is an integer r with                *)
(* min <= r <= max, and every integer of that range is returned for some   *)
(* value of the random source; randomInt raises an error when an argument  *)
(* is not an integer or when min > max.                                    *)
C18_RandomIntInRange ==
    (pc = "done" /\ fn \in {"randomInt", "randomInt2"}) =>
        LET min == args[1]
            max == args[2]
        IN  IF NumberIsInteger(min) /\ NumberIsInteger(max) /\ JsLe(min, max)
            THEN /\ out.status = "returned"
                 /\ NumberIsInteger(out.val)
                 /\ JsLe(min, out.val) /\ JsLe(out.val, max)
                 /\ \A r \in (min.num2 \div 2) .. (max.num2 \div 2) :
                        \E k \in RandomValues : RandomIntBy(fn, min, max, k) = Return(Num(r))
            ELSE out.status = "thrown"

(***************************************************************************)
(* math: gcd.  The two definitions of the repository are the same.         *)
(***************************************************************************)
\* a % b of JavaScript on integers, b # 0: the sign is that of a.
JsRem(a, b) == IF a >= 0 THEN a % Abs(b) ELSE -((-a) % Abs(b))

\* while (b !== 0) { const temp = b; b = a % b; a = temp; } return a
\* st is [a, b].
RECURSIVE GcdLoop(_)
GcdLoop(st) ==
    IF st.b # 0
    THEN GcdLoop([a |-> st.b, b |-> JsRem(st.a, st.b)])
    ELSE st.a

gcd(a, b) == Return(Num(GcdLoop([a |-> a.num2 \div 2, b |-> b.num2 \div 2])))

GcdArgs == {Num(i) : i \in -MaxGcdArg .. MaxGcdArg}

InitGcd ==
    /\ pc = "call"
    /\ fn = "gcd"
    /\ args \in GcdArgs \X GcdArgs
    /\ out = Pending
    /\ heap = NoHeap
    /\ heap0 = NoHeap

CallGcd ==
    /\ pc = "call" /\ fn = "gcd"
    /\ out' = gcd(args[1], args[2])
    /\ pc' = "done"
    /\ UNCHANGED <<fn, args, heap, heap0>>

NextGcd == CallGcd

SpecGcd == InitGcd /\ [][NextGcd]_vars

Divides(d, x) == d # 0 /\ x % Abs(d) = 0

(* C19: for all integers a and b that are not both zero, negative ones     *)
(* included, gcd(a, b) ends and returns the greatest common divisor: a     *)
(* positive integer that divides a and b and that every common divisor of  *)
(* a and b divides (gcd(12, 18) = 6, gcd(17, 19) = 1).                     *)
C19_GcdGreatest ==
    (pc = "done" /\ fn = "gcd" /\ (args[1] # Num(0) \/ args[2] # Num(0))) =>
        LET a == args[1].num2 \div 2
            b == args[2].num2 \div 2
        IN  /\ out.status = "returned"
            /\ NumberIsInteger(out.val)
            /\ LET g == out.val.num2 \div 2
               IN  /\ g > 0
                   /\ Divides(g, a) /\ Divides(g, b)
                   /\ \A d \in 1 .. MaxGcdArg : (Divides(d, a) /\ Divides(d, b)) => Divides(d, g)
            /\ (a = 12 /\ b = 18) => out.val = Num(6)
            /\ (a = 17 /\ b = 19) => out.val = Num(1)

(***************************************************************************)
(* array.  An array is an object of the heap that holds a sequence of      *)
(* values (place i + 1 here is index i there); a value may also be a       *)
(* string, with the sequence of its characters.  A call on arrays ends with the *)
(* heap it leaves and with its outcome.                                    *)
(***************************************************************************)
StrV(s) == [kind |-> "str", v |-> 0, chars |-> s]

Arr(items) == [cls |-> "Array", items |-> items]

ArrayIsArray(h, val) == val.kind = "ref" /\ h[val.v].cls = "Array"

Items(h, ref) == h[ref.v].items

Ends(h, o) == [heap |-> h, out |-> o]

\* The loop never exits: the call neither returns nor throws.
Forever == [status |-> "forever", err |-> "none", val |-> Undefined]

\* [...items] or [] : a new array, at the next place of the heap.
NewArray(h, items) == Append(h, Arr(items))

\* array.push(val)
Push(h, array, val) == [h EXCEPT ![array.v].items = Append(@, val)]

Max2(a, b) == IF a >= b THEN a ELSE b

Min2(a, b) == IF a <= b THEN a ELSE b

\* ToIntegerOrInfinity of a number given as twice its value: towards zero.
Trunc(x2) == IF x2 >= 0 THEN x2 \div 2 ELSE -((-x2) \div 2)

\* An index argument of slice: a negative one counts from the end, and the
\* result is kept within 0 .. len.
RelIndex(x2, len) ==
    LET r == Trunc(x2)
    IN  IF r < 0 THEN Max2(len + r, 0) ELSE Min2(r, len)

Slice_inclusive(items, start2, end2) ==
    SubSeq(items, RelIndex(start2, Len(items)) + 1, Min2(RelIndex(end2, Len(items)) + 1, Len(items)))

\* items.slice(start, end), for start and end given as twice their values
Slice(items, start2, end2) ==
    SubSeq(items, RelIndex(start2, Len(items)) + 1, RelIndex(end2, Len(items)))

\* for (let i = 0; i < arr.length; i += size) chunks.push(arr.slice(i, i + size))
\* st is [heap, i2], i2 twice the value of i.  When size <= 0 and the loop is
\* entered, i never reaches arr.length: slices are pushed without end.
RECURSIVE ChunkLoop(_, _, _, _)
ChunkLoop(arr, size, chunks, st) ==
    LET items == Items(st.heap, arr)
    IN  IF st.i2 < 2 * Len(items)
        THEN IF size.num2 <= 0
             THEN Ends(st.heap, Forever)
             ELSE LET h1 == NewArray(st.heap, Slice(items, st.i2, st.i2 + size.num2))
                  IN  ChunkLoop(arr, size, chunks,
                                [heap |-> Push(h1, chunks, Ref(Len(h1))), i2 |-> st.i2 + size.num2])
        ELSE Ends(st.heap, Return(chunks))

chunk(h, arr, size) ==
    IF ~ArrayIsArray(h, arr)
    THEN Ends(h, Throw("TypeError"))
    ELSE IF ~NumberIsInteger(size) \/ JsLe(size, Num(0))
    THEN Ends(h, Throw("Error"))
    ELSE LET h1 == NewArray(h, <<>>)
         IN  ChunkLoop(arr, size, Ref(Len(h1)), [heap |-> h1, i2 |-> 0])

\* The definition of src/array/index.ts: no check of the arguments.
chunkOld(h, arr, size) ==
    LET h1 == NewArray(h, <<>>)
    IN  ChunkLoop(arr, size, Ref(Len(h1)), [heap |-> h1, i2 |-> 0])

\* [...iterable]: the items of an array, the characters of a string.
Iterate(h, val) ==
    IF val.kind = "str"
    THEN [i \in 1 .. Len(val.chars) |-> StrV(<<val.chars[i]>>)]
    ELSE Items(h, val)

\* The loop of shuffle, for i from length - 1 down to 1: place i + 1 here.
\* draws[t] is what Math.random() gives in the t-th turn of the loop.
\* guarded: the exchange is made only when neither item is undefined.
RECURSIVE ShuffleLoop(_, _, _, _, _)
ShuffleLoop(shuffled, draws, guarded, t, h) ==
    LET n == Len(Items(h, shuffled))
        i == n - t
    IN  IF i > 0
        THEN LET j == FloorRandomTimes(draws[t], i + 1)
                 temp == Items(h, shuffled)[i + 1]
                 jValue == Items(h, shuffled)[j + 1]
                 h1 == IF guarded /\ (temp = UndefV \/ jValue = UndefV)
                       THEN h
                       ELSE [h EXCEPT ![shuffled.v].items =
                                [@ EXCEPT ![i + 1] = jValue, ![j + 1] = temp]]
             IN  ShuffleLoop(shuffled, draws, guarded, t + 1, h1)
        ELSE Ends(h, Return(shuffled))

shuffle_inplace(h, arr, draws) ==
    IF ~ArrayIsArray(h, arr)
    THEN Ends(h, Throw("TypeError"))
    ELSE ShuffleLoop(arr, draws, FALSE, 1, h)

shuffle(h, arr, draws) ==
    IF ~ArrayIsArray(h, arr)
    THEN Ends(h, Throw("TypeError"))
    ELSE LET h1 == NewArray(h, Iterate(h, arr))
         IN  ShuffleLoop(Ref(Len(h1)), draws, FALSE, 1, h1)

\* The definition of src/array/index.ts: [...arr] throws a TypeError on null,
\* which is not iterable, and spreads the characters of a string.
shuffleOld(h, arr, draws) ==
    IF arr.kind \notin {"ref", "str"}
    THEN Ends(h, Throw("TypeError"))
    ELSE LET h1 == NewArray(h, Iterate(h, arr))
         IN  ShuffleLoop(Ref(Len(h1)), draws, TRUE, 1, h1)

\* The items in the order of their first occurrence: [...new Set(items)]
RECURSIVE Dedupe(_, _, _)
Dedupe(items, i, seen) ==
    IF i > Len(items) THEN seen
    ELSE Dedupe(items, i + 1,
                IF \E k \in 1 .. Len(seen) : seen[k] = items[i]
                THEN seen ELSE Append(seen, items[i]))

unique(h, arr) ==
    IF ~ArrayIsArray(h, arr)
    THEN Ends(h, Throw("TypeError"))
    ELSE LET h1 == NewArray(h, Dedupe(Items(h, arr), 1, <<>>))
         IN  Ends(h1, Return(Ref(Len(h1))))

\* The definition of src/array/index.ts: new Set(null) is the empty set and
\* new Set(string) is the set of its characters.
uniqueOld(h, arr) ==
    LET items == IF arr.kind \in {"ref", "str"} THEN Iterate(h, arr) ELSE <<>>
        h1 == NewArray(h, Dedupe(items, 1, <<>>))
    IN  Ends(h1, Return(Ref(Len(h1))))

\* The depth of flatten: a number, or Infinity, which stays Infinity when 1
\* is taken from it and is greater than 0.
Infinity == [type |-> "number", nan |-> FALSE, num2 |-> 0, inf |-> TRUE]

DepthPositive(depth) == depth = Infinity \/ JsGt(depth, Num(0))

DepthMinusOne(depth) == IF depth = Infinity THEN Infinity ELSE [depth EXCEPT !.num2 = @ - 2]

RECURSIVE PushAll(_, _, _, _)
PushAll(h, array, items, i) ==
    IF i > Len(items) THEN h ELSE PushAll(Push(h, array, items[i]), array, items, i + 1)

\* flattenRecursive(array, currentDepth) from the i-th item on; st is
\* [heap, result], result the array that the call fills.
RECURSIVE FlattenRecursive(_, _, _, _)
FlattenRecursive(array, currentDepth, i, st) ==
    IF i > Len(Items(st.heap, array))
    THEN st
    ELSE LET item == Items(st.heap, array)[i]
         IN  IF ArrayIsArray(st.heap, item) /\ DepthPositive(currentDepth)
             THEN LET h1 == NewArray(st.heap, <<>>)
                      sub == FlattenRecursive(item, DepthMinusOne(currentDepth), 1,
                                              [heap |-> h1, result |-> Ref(Len(h1))])
                  IN  FlattenRecursive(array, currentDepth, i + 1,
                          [heap |-> PushAll(sub.heap, st.result, Items(sub.heap, sub.result), 1),
                           result |-> st.result])
             ELSE FlattenRecursive(array, currentDepth, i + 1,
                      [heap |-> Push(st.heap, st.result, item), result |-> st.result])

\* depth is undefined when the caller gives none: the default is Infinity.
flatten(h, arr, depth) ==
    IF ~ArrayIsArray(h, arr)
    THEN Ends(h, Throw("TypeError"))
    ELSE LET h1 == NewArray(h, <<>>)
             d == IF depth = Undefined THEN Infinity ELSE depth
             r == FlattenRecursive(arr, d, 1, [heap |-> h1, result |-> Ref(Len(h1))])
         IN  Ends(r.heap, Return(r.result))

\* arr.reduce((flat, item) => flat.concat(Array.isArray(item) ? flatten(item) : item), [])
\* from the i-th item on: concat makes a new array at every item, and spreads
\* the items of an array it is given.  st is [heap, flat].
RECURSIVE FlattenOldReduce(_, _, _)
FlattenOldReduce(arr, i, st) ==
    IF i > Len(Items(st.heap, arr))
    THEN st
    ELSE LET item == Items(st.heap, arr)[i]
             sub == IF ArrayIsArray(st.heap, item)
                    THEN LET h0 == NewArray(st.heap, <<>>)
                         IN  FlattenOldReduce(item, 1, [heap |-> h0, flat |-> Ref(Len(h0))])
                    ELSE st
             added == IF ArrayIsArray(st.heap, item) THEN Items(sub.heap, sub.flat) ELSE <<item>>
             h1 == NewArray(sub.heap, Items(sub.heap, st.flat) \o added)
         IN  FlattenOldReduce(arr, i + 1, [heap |-> h1, flat |-> Ref(Len(h1))])

\* The definition of src/array/index.ts: it has no depth parameter, and
\* arr.reduce is not a function (a TypeError) unless arr is an array.
flattenOld(h, arr, depth) ==
    IF ~ArrayIsArray(h, arr)
    THEN Ends(h, Throw("TypeError"))
    ELSE LET h1 == NewArray(h, <<>>)
             r == FlattenOldReduce(arr, 1, [heap |-> h1, flat |-> Ref(Len(h1))])
         IN  Ends(r.heap, Return(r.flat))

take(h, arr, n) ==
    IF ~ArrayIsArray(h, arr)
    THEN Ends(h, Throw("TypeError"))
    ELSE IF ~NumberIsInteger(n) \/ JsLt(n, Num(0))
    THEN Ends(h, Throw("Error"))
    ELSE LET h1 == NewArray(h, Slice(Items(h, arr), 0, n.num2))
         IN  Ends(h1, Return(Ref(Len(h1))))

drop_fromnext(h, arr, n) ==
    IF ~ArrayIsArray(h, arr)
    THEN Ends(h, Throw("TypeError"))
    ELSE IF ~NumberIsInteger(n) \/ JsLt(n, Num(0))
    THEN Ends(h, Throw("Error"))
    ELSE LET h1 == NewArray(h, Slice(Items(h, arr), n.num2 + 2, 2 * Len(Items(h, arr))))
         IN  Ends(h1, Return(Ref(Len(h1))))

drop(h, arr, n) ==
    IF ~ArrayIsArray(h, arr)
    THEN Ends(h, Throw("TypeError"))
    ELSE IF ~NumberIsInteger(n) \/ JsLt(n, Num(0))
    THEN Ends(h, Throw("Error"))
    ELSE LET h1 == NewArray(h, Slice(Items(h, arr), n.num2, 2 * Len(Items(h, arr))))
         IN  Ends(h1, Return(Ref(Len(h1))))

NaNV == [kind |-> "nan", v |-> 0]

\* Math.max(...items) for items that are numbers or undefined: ToNumber of
\* undefined is NaN, and one NaN makes the result NaN.
RECURSIVE MathMaxOf(_, _, _)
MathMaxOf(items, i, best) ==
    IF i > Len(items) THEN best
    ELSE IF items[i].kind # "num" \/ best = NaNV THEN NaNV
    ELSE MathMaxOf(items, i + 1, IF items[i].v > best.v THEN items[i] ELSE best)

max(h, arr) ==
    IF ~ArrayIsArray(h, arr)
    THEN Ends(h, Throw("TypeError"))
    ELSE IF Len(Items(h, arr)) = 0
    THEN Ends(h, Return(UndefV))
    ELSE Ends(h, Return(MathMaxOf(Items(h, arr), 2,
                                  IF Items(h, arr)[1].kind = "num" THEN Items(h, arr)[1] ELSE NaNV)))

\* Math.min(...items), likewise
RECURSIVE MathMinOf(_, _, _)
MathMinOf(items, i, best) ==
    IF i > Len(items) THEN best
    ELSE IF items[i].kind # "num" \/ best = NaNV THEN NaNV
    ELSE MathMinOf(items, i + 1, IF items[i].v < best.v THEN items[i] ELSE best)

min_ofmax(h, arr) == max(h, arr)

min(h, arr) ==
    IF ~ArrayIsArray(h, arr)
    THEN Ends(h, Throw("TypeError"))
    ELSE IF Len(Items(h, arr)) = 0
    THEN Ends(h, Return(UndefV))
    ELSE Ends(h, Return(MathMinOf(Items(h, arr), 2,
                                  IF Items(h, arr)[1].kind = "num" THEN Items(h, arr)[1] ELSE NaNV)))

\* The values given where an array is expected: a string and null.
NonArrays == {StrV(<<"a", "b", "a">>), NullV}

ArrayElems == {NumV(1), NumV(2), UndefV, Ref(2)}

SeqsOver(elems, maxLen) == UNION {[1 .. len -> elems] : len \in 0 .. maxLen}

\* The caller's arrays: arr at place 1, which may hold the array at place 2,
\* and so on down to the array at place 4; and the arrays of the examples,
\* [1, [2, 3], [4, [5, 6]]] and [1, [2, [3, [4]]]].
ArrayHeaps ==
    {<<Arr(a1), Arr(a2), Arr(<<NumV(4), Ref(4)>>), Arr(<<NumV(5)>>)>> :
        a1 \in SeqsOver(ArrayElems, MaxArrLen), a2 \in {<<NumV(3)>>, <<NumV(3), Ref(3)>>}}
    \cup {<<Arr(<<NumV(1), Ref(2), Ref(3)>>), Arr(<<NumV(2), NumV(3)>>),
            Arr(<<NumV(4), Ref(4)>>), Arr(<<NumV(5), NumV(6)>>)>>,
          <<Arr(<<NumV(1), Ref(2)>>), Arr(<<NumV(2), Ref(3)>>),
            Arr(<<NumV(3), Ref(4)>>), Arr(<<NumV(4)>>)>>}

\* The arrays of numbers, some with an undefined item.
NumberHeaps == {h \in ArrayHeaps : \A i \in 1 .. Len(h[1].items) : h[1].items[i].kind # "ref"}

Counts == {Num(i) : i \in -1 .. MaxArrLen + 1} \cup {Half(0), Half(1)}

Depths == {Undefined} \cup {Num(d) : d \in -1 .. MaxArrLen}

ArrayFns == {"chunk", "chunkOld", "shuffle", "shuffleOld", "flatten", "flattenOld",
             "take", "drop", "unique", "uniqueOld", "max", "min"}

ArrayArgs(f) ==
    CASE f = "chunk" -> [arr : {Ref(1)} \cup NonArrays, size : Counts]
      [] f = "chunkOld" -> [arr : {Ref(1)}, size : Counts]
      [] f \in {"flatten", "flattenOld"} -> [arr : {Ref(1)} \cup NonArrays, depth : Depths]
      [] f \in {"take", "drop"} -> [arr : {Ref(1)} \cup NonArrays, n : Counts]
      [] OTHER -> [arr : {Ref(1)} \cup NonArrays]

InitArray ==
    /\ pc = "call"
    /\ fn \in ArrayFns
    /\ heap \in IF fn \in {"max", "min"} THEN NumberHeaps ELSE ArrayHeaps
    /\ heap0 = heap
    /\ args \in ArrayArgs(fn)
    /\ out = Pending

\* How a call on arrays ends: the heap and the outcome it leaves.
EndsWith(r) ==
    /\ heap' = r.heap
    /\ out' = r.out
    /\ pc' = "done"
    /\ UNCHANGED <<fn, args, heap0>>

CallChunk == pc = "call" /\ fn = "chunk" /\ EndsWith(chunk(heap, args.arr, args.size))

CallChunkOld == pc = "call" /\ fn = "chunkOld" /\ EndsWith(chunkOld(heap, args.arr, args.size))

\* The number of turns of the loop of shuffle, one draw of Math.random() each.
Turns(h, arr) ==
    IF arr.kind \in {"ref", "str"} THEN Max2(Len(Iterate(h, arr)) - 1, 0) ELSE 0

CallShuffle ==
    /\ pc = "call" /\ fn = "shuffle"
    /\ \E draws \in [1 .. Turns(heap, args.arr) -> RandomValues] :
           EndsWith(shuffle(heap, args.arr, draws))

CallShuffleOld ==
    /\ pc = "call" /\ fn = "shuffleOld"
    /\ \E draws \in [1 .. Turns(heap, args.arr) -> RandomValues] :
           EndsWith(shuffleOld(heap, args.arr, draws))

CallFlatten == pc = "call" /\ fn = "flatten" /\ EndsWith(flatten(heap, args.arr, args.depth))

CallFlattenOld == pc = "call" /\ fn = "flattenOld" /\ EndsWith(flattenOld(heap, args.arr, args.depth))

CallTake == pc = "call" /\ fn = "take" /\ EndsWith(take(heap, args.arr, args.n))

CallDrop == pc = "call" /\ fn = "drop" /\ EndsWith(drop(heap, args.arr, args.n))

CallUnique == pc = "call" /\ fn = "unique" /\ EndsWith(unique(heap, args.arr))

CallUniqueOld == pc = "call" /\ fn = "uniqueOld" /\ EndsWith(uniqueOld(heap, args.arr))

CallMax == pc = "call" /\ fn = "max" /\ EndsWith(max(heap, args.arr))

CallMin == pc = "call" /\ fn = "min" /\ EndsWith(min(heap, args.arr))

NextArray ==
    \/ CallChunk
    \/ CallChunkOld
    \/ CallShuffle
    \/ CallShuffleOld
    \/ CallFlatten
    \/ CallFlattenOld
    \/ CallTake
    \/ CallDrop
    \/ CallUnique
    \/ CallUniqueOld
    \/ CallMax
    \/ CallMin

SpecArray == InitArray /\ [][NextArray]_vars

\* The call was made on an array, and it is done.
DoneOnArray(fns) == pc = "done" /\ fn \in fns /\ ArrayIsArray(heap0, args.arr)

\* The returned array is one that did not exist when the call started.
ReturnsNewArray ==
    /\ out.status = "returned"
    /\ out.val.kind = "ref" /\ out.val.v > Len(heap0)
    /\ ArrayIsArray(heap, out.val)

PositiveInteger(v) == NumberIsInteger(v) /\ v.num2 > 0

(* C11: chunk(arr, size) raises an error for every size that is zero,      *)
(* negative or not an integer: it neither returns a result nor runs        *)
(* forever.                                                                *)
C11_ChunkRefusesSize ==
    (DoneOnArray({"chunk", "chunkOld"}) /\ ~PositiveInteger(args.size)) =>
        out.status = "thrown"

RECURSIVE ConcatAll(_, _, _)
ConcatAll(h, refs, i) ==
    IF i > Len(refs) THEN <<>> ELSE Items(h, refs[i]) \o ConcatAll(h, refs, i + 1)

(* C12: for a positive integer size, chunk(arr, size) returns consecutive  *)
(* slices of arr in order: every chunk but the last has size elements, the *)
(* last has between 1 and size, their concatenation is arr, and an empty   *)
(* arr gives no chunk.                                                     *)
C12_ChunkSlices ==
    (DoneOnArray({"chunk", "chunkOld"}) /\ PositiveInteger(args.size)) =>
        /\ ReturnsNewArray
        /\ LET chunks == Items(heap, out.val)
               size == args.size.num2 \div 2
           IN  /\ \A k \in 1 .. Len(chunks) :
                     /\ ArrayIsArray(heap, chunks[k]) /\ chunks[k].v > Len(heap0)
                     /\ k < Len(chunks) => Len(Items(heap, chunks[k])) = size
                     /\ k = Len(chunks) => Len(Items(heap, chunks[k])) \in 1 .. size
               /\ ConcatAll(heap, chunks, 1) = Items(heap0, args.arr)
               /\ Len(Items(heap0, args.arr)) = 0 => Len(chunks) = 0

C12_Witness ==
    /\ pc = "done" /\ fn = "chunk" /\ args.arr = Ref(1) /\ args.size = Num(2)
    /\ Items(heap0, Ref(1)) = <<NumV(1), UndefV, Ref(2)>>
    /\ out.status = "returned"
    /\ Len(Items(heap, out.val)) = 2
    /\ Items(heap, Items(heap, out.val)[1]) = <<NumV(1), UndefV>>
    /\ Items(heap, Items(heap, out.val)[2]) = <<Ref(2)>>

Count(items, v) == Cardinality({i \in DOMAIN items : items[i] = v})

SameElements(a, b) ==
    /\ Len(a) = Len(b)
    /\ \A i \in DOMAIN a : Count(a, a[i]) = Count(b, a[i])

RECURSIVE Flat(_, _, _)
Flat(h, items, d) ==
    IF Len(items) = 0 THEN <<>>
    ELSE LET item == Head(items)
         IN  (IF ArrayIsArray(h, item) /\ d > 0
              THEN Flat(h, Items(h, item), d - 1)
              ELSE <<item>>) \o Flat(h, Tail(items), d)

(* C14: flatten(arr, depth) removes at most depth levels of nesting and    *)
(* keeps the order of the elements: with the default depth nothing nested  *)
(* is left ([1,[2,3],[4,[5,6]]] gives [1,2,3,4,5,6]), with depth d an      *)
(* array nested deeper than d stays an array ([1,[2,[3,[4]]]] with depth 2 *)
(* gives [1,2,3,[4]]), and with depth 0 the result is a copy of arr.       *)
C14_FlattenDepth ==
    (/\ DoneOnArray({"flatten", "flattenOld"})
     /\ args.depth \in {Undefined} \cup {Num(d) : d \in 0 .. MaxArrLen}) =>
        /\ ReturnsNewArray
        /\ Items(heap, out.val) =
               Flat(heap0, Items(heap0, args.arr),
                    IF args.depth = Undefined THEN Len(heap0) ELSE args.depth.num2 \div 2)
        /\ (/\ Items(heap0, args.arr) = <<NumV(1), Ref(2)>>
            /\ Items(heap0, Ref(2)) = <<NumV(2), Ref(3)>>
            /\ Items(heap0, Ref(3)) = <<NumV(3), Ref(4)>>
            /\ args.depth = Num(2))
           => Items(heap, out.val) = <<NumV(1), NumV(2), NumV(3), Ref(4)>>
        /\ args.depth = Num(0) => Items(heap, out.val) = Items(heap0, args.arr)
        /\ InputsUnchanged

NonNegativeInteger(v) == NumberIsInteger(v) /\ v.num2 >= 0

(* C15: for a non-negative integer n, take(arr, n) is the first            *)
(* min(n, length) elements of arr and drop(arr, n) is the rest, so that    *)
(* take followed by drop is arr; take(arr, 0) is empty, and drop(arr, n)   *)
(* is empty when n >= length.                                              *)
C15_TakeThenDrop ==
    (DoneOnArray({"take", "drop"}) /\ NonNegativeInteger(args.n)) =>
        LET items == Items(heap0, args.arr)
            n == args.n.num2 \div 2
            m == Min2(n, Len(items))
            taken == take(heap0, args.arr, args.n)
            dropped == drop(heap0, args.arr, args.n)
        IN  /\ ReturnsNewArray
            /\ fn = "take" => Items(heap, out.val) = SubSeq(items, 1, m)
            /\ fn = "drop" => Items(heap, out.val) = SubSeq(items, m + 1, Len(items))
            /\ Items(taken.heap, taken.out.val) \o Items(dropped.heap, dropped.out.val) = items
            /\ (fn = "take" /\ n = 0) => Items(heap, out.val) = <<>>
            /\ (fn = "drop" /\ n >= Len(items)) => Items(heap, out.val) = <<>>

C15_Witness ==
    /\ pc = "done" /\ fn = "drop" /\ args.arr = Ref(1) /\ args.n = Num(1)
    /\ Items(heap0, Ref(1)) = <<NumV(1), NumV(2), Ref(2)>>
    /\ out.status = "returned"
    /\ Items(heap, out.val) = <<NumV(2), Ref(2)>>

(* C16: unique, shuffle, flatten, take and max raise a TypeError when      *)
(* their first argument is not an array, a string for example, and do not  *)
(* treat it as a sequence and return a result.                             *)
C16_NonArrayRefused ==
    (/\ pc = "done"
     /\ fn \in {"unique", "uniqueOld", "shuffle", "shuffleOld", "flatten", "flattenOld", "take", "max"}
     /\ ~ArrayIsArray(heap0, args.arr)) =>
        out = Throw("TypeError")

(***************************************************************************)
(* string: truncate.  The repository holds two definitions of it.          *)
(***************************************************************************)
\* An index argument of substring: NaN and negatives are 0, and it is kept
\* within 0 .. len.
SubstringIndex(x2, len) == Max2(0, Min2(Trunc(x2), len))

\* chars.substring(start, end), for start and end given as twice their
\* values: the two indexes are exchanged when start > end.
Substring(chars, start2, end2) ==
    LET a == SubstringIndex(start2, Len(chars))
        b == SubstringIndex(end2, Len(chars))
    IN  SubSeq(chars, Min2(a, b) + 1, Max2(a, b))

\* The default suffix, '...'
Ellipsis == <<".", ".", ".">>

truncate(str, length, suffix) ==
    IF TypeofV(str) # "string"
    THEN Throw("TypeError")
    ELSE IF ~NumberIsInteger(length) \/ JsLt(length, Num(0))
    THEN Throw("Error")
    ELSE LET sfx == IF suffix = UndefV THEN Ellipsis ELSE suffix.chars
         IN  IF 2 * Len(str.chars) <= length.num2
             THEN Return(str)
             ELSE Return(StrV(Substring(str.chars, 0, Max2(0, length.num2 - 2 * Len(sfx))) \o sfx))

\* The second definition: no check of the arguments; reading null.length
\* throws a TypeError.
truncateOld(str, length, suffix) ==
    IF str.kind # "str"
    THEN Throw("TypeError")
    ELSE LET sfx == IF suffix = UndefV THEN Ellipsis ELSE suffix.chars
         IN  IF 2 * Len(str.chars) <= length.num2
             THEN Return(str)
             ELSE Return(StrV(Substring(str.chars, 0, length.num2 - 2 * Len(sfx)) \o sfx))

StrChars == {"a", "b"}

Strings == {StrV(cs) : cs \in SeqsOver(StrChars, MaxStrLen)}

Suffixes == {UndefV, StrV(<<>>), StrV(<<"~">>), StrV(<<"*", "*", "*">>)}

Lengths == {Num(i) : i \in -1 .. MaxStrLen + 1} \cup {Half(1)}

InitString ==
    /\ pc = "call"
    /\ fn \in {"truncate", "truncateOld"}
    /\ args \in [str : Strings \cup {NullV}, length : Lengths, suffix : Suffixes]
    /\ out = Pending
    /\ heap = NoHeap
    /\ heap0 = NoHeap

CallTruncate ==
    /\ pc = "call" /\ fn = "truncate"
    /\ out' = truncate(args.str, args.length, args.suffix)
    /\ pc' = "done"
    /\ UNCHANGED <<fn, args, heap, heap0>>

CallTruncateOld ==
    /\ pc = "call" /\ fn = "truncateOld"
    /\ out' = truncateOld(args.str, args.length, args.suffix)
    /\ pc' = "done"
    /\ UNCHANGED <<fn, args, heap, heap0>>

NextString ==
    \/ CallTruncate
    \/ CallTruncateOld

SpecString == InitString /\ [][NextString]_vars

(* C17: truncate(str, length, suffix) never returns a string longer than   *)
(* length, for every non-negative integer length and every suffix: a str   *)
(* of at most length characters is returned unchanged, and otherwise the   *)
(* result is a prefix of str followed by suffix, of exactly length         *)
(* characters in total.                                                    *)
C17_TruncateWithinLength ==
    (/\ pc = "done" /\ fn \in {"truncate", "truncateOld"}
     /\ args.str.kind = "str" /\ NonNegativeInteger(args.length)) =>
        LET str == args.str.chars
            length == args.length.num2 \div 2
            sfx == IF args.suffix = UndefV THEN Ellipsis ELSE args.suffix.chars
        IN  /\ out.status = "returned"
            /\ out.val.kind = "str"
            /\ Len(out.val.chars) <= length
            /\ Len(str) <= length => out.val = args.str
            /\ Len(str) > length =>
                   /\ Len(out.val.chars) = length
                   /\ \E k \in 0 .. Len(str) : out.val.chars = SubSeq(str, 1, k) \o sfx

\* The largest number of occurrences of a value in xs
MaxCount(xs) ==
    CHOOSE c \in 1 .. Len(xs) :
        /\ \E i \in DOMAIN xs : Count(xs, xs[i]) = c
        /\ \A i \in DOMAIN xs : Count(xs, xs[i]) <= c

(* C20: for every non-empty sequence of integers, mode returns exactly the *)
(* values that occur most often in it, each once and each equal to an      *)
(* element of the input (mode([1,2,2,3,3,3]) = [3] and                     *)
(* mode([1,1,2,2]) = [1,2]).                                               *)
C20_ModeMostFrequent ==
    (pc = "done" /\ fn = "mode" /\ Len(args) > 0) =>
        /\ out.status = "returned"
        /\ \A i \in DOMAIN out.val :
               /\ Count(out.val, out.val[i]) = 1
               /\ Count(args, out.val[i]) = MaxCount(args)
        /\ \A j \in DOMAIN args :
               Count(args, args[j]) = MaxCount(args) => Count(out.val, args[j]) = 1
        /\ args = <<Whole(1), Whole(2), Whole(2), Whole(3), Whole(3), Whole(3)>>
               => out.val = <<Whole(3)>>
        /\ args = <<Whole(1), Whole(1), Whole(2), Whole(2)>>
               => out.val = <<Whole(1), Whole(2)>>

AllNumbers(items) == \A i \in DOMAIN items : items[i].kind = "num"

(* C21: max(arr) and min(arr) return undefined for an empty array; for a   *)
(* non-empty array of numbers max returns an element of arr that is >=     *)
(* every element and min an element that is <= every element, so that      *)
(* min(arr) <= max(arr), and the two are equal for an array of one element.*)
C21_MaxMinBounds ==
    (DoneOnArray({"max", "min"}) /\ AllNumbers(Items(heap0, args.arr))) =>
        LET items == Items(heap0, args.arr)
            hi == max(heap0, args.arr).out.val
            lo == min(heap0, args.arr).out.val
        IN  /\ out.status = "returned"
            /\ heap = heap0
            /\ Len(items) = 0 => out.val = UndefV
            /\ Len(items) > 0 =>
                   /\ \E i \in DOMAIN items : items[i] = out.val
                   /\ fn = "max" => \A i \in DOMAIN items : out.val.v >= items[i].v
                   /\ fn = "min" => \A i \in DOMAIN items : out.val.v <= items[i].v
                   /\ lo.v <= hi.v
                   /\ Len(items) = 1 => lo = hi

C21_Witness ==
    /\ pc = "done" /\ fn = "min" /\ args.arr = Ref(1)
    /\ Items(heap0, Ref(1)) = <<NumV(2), NumV(1), NumV(2)>>
    /\ out = Return(NumV(1))

(***************************************************************************)
(* escapeHtml and unescapeHtml (src/unnamed/part_003).  A string is the    *)
(* sequence of its characters; both functions are one left-to-right pass   *)
(* of String.prototype.replace with a global pattern, so that the text     *)
(* put in by a replacement is never scanned again.                         *)
(***************************************************************************)

\* The table htmlEscapes, and `|| char' for a character outside it
HtmlEscapes(c) ==
    CASE c = "&" -> <<"&", "a", "m", "p", ";">>
      [] c = "<" -> <<"&", "l", "t", ";">>
      [] c = ">" -> <<"&", "g", "t", ";">>
      [] c = "\"" -> <<"&", "q", "u", "o", "t", ";">>
      [] c = "'" -> <<"&", "#", "x", "2", "7", ";">>
      [] OTHER -> <<c>>

\* The pattern /[&<>"']/
EscapePattern == {"&", "<", ">", "\"", "'"}

\* str.replace(/[&<>"']/g, char => htmlEscapes[char] || char)
\* st = [i |-> next position, result |-> the text built so far]
RECURSIVE ReplaceEscapes(_, _)
ReplaceEscapes(chars, st) ==
    IF st.i > Len(chars) THEN st.result
    ELSE ReplaceEscapes(chars,
             [i |-> st.i + 1,
              result |-> st.result \o (IF chars[st.i] \in EscapePattern
                                       THEN HtmlEscapes(chars[st.i])
                                       ELSE <<chars[st.i]>>)])

escapeHtml(str) ==
    IF TypeofV(str) # "string"
    THEN Throw("TypeError")
    ELSE Return(StrV(ReplaceEscapes(str.chars, [i |-> 1, result |-> <<>>])))

\* The table htmlUnescapes, as pairs <<entity, character>>
HtmlUnescapes ==
    {<<HtmlEscapes(c), c>> : c \in EscapePattern}

\* Whether the text pat stands in chars at position i
StandsAt(chars, i, pat) ==
    /\ i + Len(pat) - 1 <= Len(chars)
    /\ SubSeq(chars, i, i + Len(pat) - 1) = pat

\* The pattern /&(?:amp|lt|gt|quot|#x27);/ at position i: the entities that
\* match there (at most one, no entity being a prefix of another)
EntityAt(chars, i) == {e \in HtmlUnescapes : StandsAt(chars, i, e[1])}

\* str.replace(/&(?:amp|lt|gt|quot|#x27);/g, entity => htmlUnescapes[entity] || entity)
RECURSIVE ReplaceEntities(_, _)
ReplaceEntities(chars, st) ==
    IF st.i > Len(chars) THEN st.result
    ELSE IF EntityAt(chars, st.i) # {}
    THEN LET e == CHOOSE x \in EntityAt(chars, st.i) : TRUE
         IN  ReplaceEntities(chars, [i |-> st.i + Len(e[1]),
                                     result |-> Append(st.result, e[2])])
    ELSE ReplaceEntities(chars, [i |-> st.i + 1,
                                 result |-> Append(st.result, chars[st.i])])

unescapeHtml_twice(str) ==
    IF TypeofV(str) # "string"
    THEN Throw("TypeError")
    ELSE Return(StrV(ReplaceEntities(ReplaceEntities(str.chars, [i |-> 1, result |-> <<>>]),
                                     [i |-> 1, result |-> <<>>])))

unescapeHtml(str) ==
    IF TypeofV(str) # "string"
    THEN Throw("TypeError")
    ELSE Return(StrV(ReplaceEntities(str.chars, [i |-> 1, result |-> <<>>])))

\* The inputs: texts put together from at most MaxPieces pieces, a piece
\* being a character to escape, an entity, the tail of an entity or a
\* character that neither function touches.
MaxPieces == 3

HtmlPieces ==
    {<<c>> : c \in EscapePattern} \cup {HtmlEscapes(c) : c \in EscapePattern}
        \cup {<<"a">>, <<";">>, <<"a", "m", "p", ";">>, <<"l", "t", ";">>, <<"&", "g", "t">>}

RECURSIVE Joined(_)
Joined(pieces) == IF pieces = <<>> THEN <<>> ELSE Head(pieces) \o Joined(Tail(pieces))

HtmlStrings == {StrV(Joined(ps)) : ps \in SeqsOver(HtmlPieces, MaxPieces)}

InitHtml ==
    /\ pc = "call"
    /\ fn \in {"escapeHtml", "unescapeHtml"}
    /\ args \in [str : HtmlStrings \cup {NullV, NumV(1)}]
    /\ out = Pending
    /\ heap = NoHeap
    /\ heap0 = NoHeap

CallEscapeHtml ==
    /\ pc = "call" /\ fn = "escapeHtml"
    /\ out' = escapeHtml(args.str)
    /\ pc' = "done"
    /\ UNCHANGED <<fn, args, heap, heap0>>

CallUnescapeHtml ==
    /\ pc = "call" /\ fn = "unescapeHtml"
    /\ out' = unescapeHtml(args.str)
    /\ pc' = "done"
    /\ UNCHANGED <<fn, args, heap, heap0>>

NextHtml ==
    \/ CallEscapeHtml
    \/ CallUnescapeHtml

SpecHtml == InitHtml /\ [][NextHtml]_vars

\* The characters escapeHtml is to leave none of
Markup == {"<", ">", "\"", "'"}

(* C22: unescapeHtml is a left inverse of escapeHtml: for every string s,  *)
(* one that already holds text such as "&lt;" or "&amp;" included,         *)
(* unescapeHtml(escapeHtml(s)) = s, and escapeHtml(s) holds none of the    *)
(* characters <, >, double quote and single quote.                         *)
C22_UnescapeInvertsEscape ==
    (pc = "done" /\ fn = "escapeHtml" /\ args.str.kind = "str") =>
        /\ out.status = "returned"
        /\ unescapeHtml(out.val) = Return(args.str)
        /\ \A i \in DOMAIN out.val.chars : out.val.chars[i] \notin Markup

C22_Witness ==
    /\ pc = "done" /\ fn = "escapeHtml"
    /\ args.str = StrV(<<"&", "l", "t", ";", "<", "&", "a", "m", "p", ";">>)
    /\ out = Return(StrV(<<"&", "a", "m", "p", ";", "l", "t", ";", "&", "l", "t", ";",
                           "&", "a", "m", "p", ";", "a", "m", "p", ";">>))

\* The Luhn sum of a run of digits, by the place of each digit counted from
\* the right (place 1 is the last digit): a digit at an even place is
\* doubled, and 9 is taken off a doubled digit above 9.
RECURSIVE LuhnSum(_, _)
LuhnSum(digits, place) ==
    IF place > Len(digits) THEN 0
    ELSE LET d == ParseDigit(digits[Len(digits) + 1 - place])
             term == IF place % 2 = 1 THEN d
                     ELSE IF 2 * d > 9 THEN 2 * d - 9 ELSE 2 * d
         IN  term + LuhnSum(digits, place + 1)

\* The string str without its character at position pos
RemoveAt(str, pos) == SubSeq(str, 1, pos - 1) \o SubSeq(str, pos + 1, Len(str))

(* C23: isValidCreditCard(s) returns true exactly when s without its white *)
(* space is 13 to 19 decimal digits whose Luhn sum (every second digit     *)
(* from the right doubled, starting with the last but one, 9 taken off a   *)
(* doubled digit above 9) is divisible by 10; putting in or taking out     *)
(* white space anywhere in s never changes the result, and any other       *)
(* character that is not a digit makes the result false.                   *)
C23_CardExactly ==
    (pc = "done" /\ fn = "isValidCreditCard") =>
        LET clean == SelectSeq(args, LAMBDA c : c \notin Whitespace)
            digits == \A k \in DOMAIN clean : IsDigit(clean[k])
        IN  /\ out = Return(/\ digits
                            /\ Len(clean) \in 13 .. 19
                            /\ LuhnSum(clean, 1) % 10 = 0)
            /\ \A pos \in 0 .. Len(args) : \A w \in Whitespace :
                   isValidCreditCard(InsertAt(args, pos, w)) = out
            /\ \A pos \in DOMAIN args :
                   args[pos] \in Whitespace => isValidCreditCard(RemoveAt(args, pos)) = out
            /\ ~digits => out = Return(FALSE)

C23_Witness ==
    /\ pc = "done" /\ fn = "isValidCreditCard"
    /\ Len(args) = 17 /\ args[2] = "\t"
    /\ out = Return(TRUE)

(***************************************************************************)
(* deepClone, deepMerge, pick and omit (src/unnamed/part_002).  The heap   *)
(* holds plain objects, arrays and dates.  Every object inherits the       *)
(* members of Object.prototype, of which the model keeps hasOwnProperty: a *)
(* built-in function that `in' and a property read find on every object,   *)
(* that for-in does not list, and that an own property of the same name    *)
(* hides.  The name __proto__ is not among the keys of the model.          *)
(***************************************************************************)

\* The built-in function Object.prototype.hasOwnProperty, as a value
FnV == [kind |-> "fn", v |-> 0]

\* new Date(time)
DateObj(time) == [cls |-> "Date", time |-> time]

\* The names every object inherits
Inherited == {"hasOwnProperty"}

\* The own enumerable string keys of a value: those of a plain object; a
\* date has none, a primitive has none, and the index keys of an array are
\* not among the keys of the model.
OwnKeys(h, val) ==
    IF val.kind = "ref" /\ h[val.v].cls = "Object" THEN DOMAIN h[val.v].props ELSE {}

\* key in obj, for a reference obj
In(h, obj, key) == key \in OwnKeys(h, obj) \/ key \in Inherited

\* obj[key], for a reference obj
Read(h, obj, key) ==
    IF key \in OwnKeys(h, obj) THEN h[obj.v].props[key]
    ELSE IF key \in Inherited THEN FnV
    ELSE UndefV

\* Whether obj.hasOwnProperty is the built-in: when an own property hides
\* it with a value that is no function, the call obj.hasOwnProperty(key)
\* throws a TypeError.
HasOwnPropertyCallable(h, obj) == TypeofV(Read(h, obj, "hasOwnProperty")) = "function"

\* The keys of a for-in loop, in a fixed order (the order of insertion is not
\* kept by the model; the functions below treat each key by itself).
RECURSIVE InSomeOrder(_)
InSomeOrder(keys) ==
    IF keys = {} THEN <<>>
    ELSE LET k == CHOOSE x \in keys : TRUE
         IN  <<k>> \o InSomeOrder(keys \ {k})

ForIn(h, obj) == InSomeOrder(OwnKeys(h, obj))

\* obj[key] && typeof obj[key] === 'object' && !Array.isArray(obj[key])
IsObjectNotArray(h, val) == val.kind = "ref" /\ h[val.v].cls # "Array"

\* A recursion that never ends is ended by the engine with a RangeError.
Overflow(h) == [heap |-> h, thrown |-> TRUE, err |-> "RangeError", val |-> UndefV]

\* deepClone(obj), with the objects whose clone is under way
RECURSIVE deepCloneWithin(_, _, _), CloneItems(_, _, _), CloneProps(_, _, _, _, _)
deepCloneWithin(h, obj, stack) ==
    IF obj.kind # "ref"
    THEN Run(h, obj)
    ELSE IF obj.v \in stack
    THEN Overflow(h)
    ELSE IF h[obj.v].cls = "Date"
    THEN Run(Append(h, DateObj(h[obj.v].time)), Ref(Len(h) + 1))
    ELSE IF h[obj.v].cls = "Array"
    THEN CloneItems(h[obj.v].items, stack \cup {obj.v}, [heap |-> h, i |-> 1, result |-> <<>>])
    ELSE CloneProps(obj, Ref(Len(h) + 1), ForIn(h, obj), stack \cup {obj.v},
                    [heap |-> Append(h, Obj(NoProps)), i |-> 1])

\* obj.map(item => deepClone(item))
CloneItems(items, stack, st) ==
    IF st.i > Len(items)
    THEN Run(Append(st.heap, Arr(st.result)), Ref(Len(st.heap) + 1))
    ELSE LET r == deepCloneWithin(st.heap, items[st.i], stack)
         IN  IF r.thrown THEN r
             ELSE CloneItems(items, stack,
                             [heap |-> r.heap, i |-> st.i + 1, result |-> Append(st.result, r.val)])

\* for (const key in obj) if (obj.hasOwnProperty(key)) cloned[key] = deepClone(obj[key])
CloneProps(obj, cloned, keys, stack, st) ==
    IF st.i > Len(keys)
    THEN Run(st.heap, cloned)
    ELSE IF ~HasOwnPropertyCallable(st.heap, obj)
    THEN Fail(st.heap)
    ELSE LET r == deepCloneWithin(st.heap, Read(st.heap, obj, keys[st.i]), stack)
         IN  IF r.thrown THEN r
             ELSE CloneProps(obj, cloned, keys, stack,
                             [heap |-> PutProp(r.heap, cloned, keys[st.i], r.val), i |-> st.i + 1])

deepClone(h, obj) == deepCloneWithin(h, obj, {})

\* deepMerge(...objects), objects being a sequence of values
RECURSIVE deepMerge(_, _), MergeReduce(_, _, _), MergeKeys(_, _, _, _)
deepMerge(h, objects) ==
    IF Len(objects) = 0
    THEN Run(Append(h, Obj(NoProps)), Ref(Len(h) + 1))
    ELSE IF Len(objects) = 1
    THEN IF objects[1].kind \in {"ref", "fn"}
         THEN Run(h, objects[1])
         ELSE Run(Append(h, Obj(NoProps)), Ref(Len(h) + 1))
    ELSE MergeReduce(objects, Ref(Len(h) + 1), [heap |-> Append(h, Obj(NoProps)), i |-> 1])

\* objects.reduce((result, obj) => { ... return result; }, {})
MergeReduce(objects, result, st) ==
    IF st.i > Len(objects)
    THEN Run(st.heap, result)
    ELSE LET r == MergeKeys(objects[st.i], result, ForIn(st.heap, objects[st.i]),
                            [heap |-> st.heap, i |-> 1])
         IN  IF r.thrown THEN r
             ELSE MergeReduce(objects, result, [heap |-> r.heap, i |-> st.i + 1])

\* for (const key in obj) { if (obj.hasOwnProperty(key)) { ... } }
MergeKeys(obj, result, keys, st) ==
    IF st.i > Len(keys)
    THEN Run(st.heap, result)
    ELSE IF ~HasOwnPropertyCallable(st.heap, obj)
    THEN Fail(st.heap)
    ELSE LET key == keys[st.i]
             val == Read(st.heap, obj, key)
             existingValue == Read(st.heap, result, key)
             r == IF ~IsObjectNotArray(st.heap, val)
                  THEN Run(st.heap, val)
                  ELSE IF IsObjectNotArray(st.heap, existingValue)
                  THEN deepMerge(st.heap, <<existingValue, val>>)
                  ELSE deepMerge(Append(st.heap, Obj(NoProps)), <<Ref(Len(st.heap) + 1), val>>)
         IN  IF r.thrown THEN r
             ELSE MergeKeys(obj, result, keys,
                            [heap |-> PutProp(r.heap, result, key, r.val), i |-> st.i + 1])

\* keys.forEach(key => { if (key in obj) result[key] = obj[key]; })
RECURSIVE PickKeys(_, _, _, _)
PickKeys(obj, result, keys, st) ==
    IF st.i > Len(keys)
    THEN Run(st.heap, result)
    ELSE PickKeys(obj, result, keys,
                  [heap |-> IF In(st.heap, obj, keys[st.i])
                            THEN PutProp(st.heap, result, keys[st.i], Read(st.heap, obj, keys[st.i]))
                            ELSE st.heap,
                   i |-> st.i + 1])

pick(h, obj, keys) ==
    PickKeys(obj, Ref(Len(h) + 1), keys, [heap |-> Append(h, Obj(NoProps)), i |-> 1])

\* delete result[key]
DeleteProp(h, result, key) ==
    [h EXCEPT ![result.v].props = [k \in DOMAIN @ \ {key} |-> @[k]]]

\* keys.forEach(key => { delete result[key]; })
RECURSIVE OmitKeys(_, _, _)
OmitKeys(result, keys, st) ==
    IF st.i > Len(keys)
    THEN Run(st.heap, result)
    ELSE OmitKeys(result, keys,
                  [heap |-> DeleteProp(st.heap, result, keys[st.i]), i |-> st.i + 1])

omit(h, obj, keys) ==
    OmitKeys(Ref(Len(h) + 1), keys, [heap |-> Spread(h, obj), i |-> 1])

\* get(obj, path, defaultValue), for keys = path.split('.'): the loop from
\* its turn i on, result being the value reached so far
RECURSIVE GetLoop(_, _, _, _, _)
GetLoop(h, result, keys, i, defaultValue) ==
    IF i > Len(keys) THEN result
    ELSE IF result.kind = "ref" /\ In(h, result, keys[i])
    THEN GetLoop(h, Read(h, result, keys[i]), keys, i + 1, defaultValue)
    ELSE defaultValue

get(h, obj, path, defaultValue) == Run(h, GetLoop(h, obj, path, 1, defaultValue))

\* The objects with keys a and b and values among vals, with or without an
\* own property hasOwnProperty (the number 1) when hiding is set.
InputProps(vals, hiding) ==
    PropsOver(vals) \cup
    (IF hiding
     THEN {[k \in DOMAIN p \cup {"hasOwnProperty"} |->
               IF k = "hasOwnProperty" THEN NumV(1) ELSE p[k]] : p \in PropsOver(vals)}
     ELSE {})

\* The caller's values: two objects to merge at places 1 and 2, a nested
\* object at 3, an array at 4, a nested object at 5 and a date at 6.
ValueHeapsOver(P1, P2, P3, P5) ==
    {<<Obj(p1), Obj(p2), Obj(p3), Arr(<<NumV(1), Ref(6)>>), Obj(p5), DateObj(0)>> :
        p1 \in P1, p2 \in P2, p3 \in P3, p5 \in P5}

FirstProps == InputProps({NumV(1), NullV, Ref(3), Ref(4)}, TRUE)

SecondProps == InputProps({NumV(2), Ref(5), Ref(4), Ref(6)}, FALSE)

NestedProps ==
    {[k \in {"a"} |-> NumV(2)],
     [k \in {"a", "b"} |-> IF k = "a" THEN NumV(2) ELSE Ref(6)],
     [k \in {"b"} |-> Ref(4)],
     [k \in {"b"} |-> Ref(5)]}

Leaf == [k \in {"a"} |-> NumV(5)]

\* For deepMerge the objects form no cycle; for deepClone the object at 5
\* may hold itself or the object at 3 that holds it.
MergeHeaps == ValueHeapsOver(FirstProps, SecondProps, NestedProps, {Leaf})

CloneHeaps ==
    ValueHeapsOver(FirstProps, {Leaf}, NestedProps,
                   {Leaf, [k \in {"a"} |-> Ref(5)], [k \in {"a"} |-> Ref(3)]})

PickHeaps == ValueHeapsOver(FirstProps, {Leaf}, {Leaf}, {Leaf})

PathHeaps == ValueHeapsOver(FirstProps, {Leaf}, NestedProps, {Leaf})

\* The lists of at most two keys
KeyLists == SeqsOver(Keys \cup Inherited, 2)

ValueFns == {"deepMerge", "deepClone", "pick", "omit", "get"}

ValueArgs(f) ==
    CASE f = "deepMerge" ->
             [objects : {<<>>, <<Ref(1)>>, <<Ref(1), Ref(2)>>, <<Ref(2), Ref(1)>>,
                         <<Ref(1), Ref(2), Ref(3)>>}]
      [] f = "deepClone" -> [obj : {Ref(1), Ref(4), Ref(6), NumV(1), NullV}]
      [] f = "get" -> [obj : {Ref(1)}, path : Paths, defaultValue : {UndefV, NumV(9)}]
      [] OTHER -> [obj : {Ref(1)}, keys : KeyLists]

InitValues ==
    /\ pc = "call"
    /\ fn \in ValueFns
    /\ heap \in CASE fn = "deepMerge" -> MergeHeaps
                  [] fn = "deepClone" -> CloneHeaps
                  [] fn = "get" -> PathHeaps
                  [] OTHER -> PickHeaps
    /\ heap0 = heap
    /\ args \in ValueArgs(fn)
    /\ out = Pending

\* The end of a call on the heap
Finishes(r) ==
    /\ heap' = r.heap
    /\ out' = IF r.thrown THEN Throw(r.err) ELSE Return(r.val)
    /\ pc' = "done"
    /\ UNCHANGED <<fn, args, heap0>>

CallDeepMerge == pc = "call" /\ fn = "deepMerge" /\ Finishes(deepMerge(heap, args.objects))

CallDeepClone == pc = "call" /\ fn = "deepClone" /\ Finishes(deepClone(heap, args.obj))

CallPick == pc = "call" /\ fn = "pick" /\ Finishes(pick(heap, args.obj, args.keys))

CallOmit == pc = "call" /\ fn = "omit" /\ Finishes(omit(heap, args.obj, args.keys))

CallGet ==
    pc = "call" /\ fn = "get" /\ Finishes(get(heap, args.obj, args.path, args.defaultValue))

NextValues ==
    \/ CallDeepMerge
    \/ CallDeepClone
    \/ CallPick
    \/ CallOmit
    \/ CallGet

SpecValues == InitValues /\ [][NextValues]_vars

\* A value without the places it is kept at: a primitive as it is, an
\* object as its keys and the values under them, an array as its items, a
\* date as its time.
RECURSIVE Tree(_, _)
Tree(h, val) ==
    IF val.kind # "ref" THEN val
    ELSE IF h[val.v].cls = "Object"
    THEN [cls |-> "Object", props |-> [k \in DOMAIN h[val.v].props |-> Tree(h, h[val.v].props[k])]]
    ELSE IF h[val.v].cls = "Array"
    THEN [cls |-> "Array", items |-> [i \in DOMAIN h[val.v].items |-> Tree(h, h[val.v].items[i])]]
    ELSE h[val.v]

\* The places of the objects, arrays and dates a value is made of
RECURSIVE Places(_, _)
Places(h, val) ==
    IF val.kind # "ref" THEN {}
    ELSE {val.v} \cup
         (IF h[val.v].cls = "Object"
          THEN UNION {Places(h, h[val.v].props[k]) : k \in DOMAIN h[val.v].props}
          ELSE IF h[val.v].cls = "Array"
          THEN UNION {Places(h, h[val.v].items[i]) : i \in DOMAIN h[val.v].items}
          ELSE {})

\* The places that existed when the call started
Given == 1 .. Len(heap0)

\* The keys of the inputs of deepMerge, and the last input that holds a key
InputKeys(objects) == UNION {OwnKeys(heap0, objects[i]) : i \in DOMAIN objects}

LastHolding(objects, key) ==
    CHOOSE i \in DOMAIN objects :
        /\ key \in OwnKeys(heap0, objects[i])
        /\ \A j \in DOMAIN objects : j > i => key \notin OwnKeys(heap0, objects[j])

\* What the claim gives for one key of the result: with the inputs before
\* the last one that holds the key merged into an empty object, the merge
\* of the value found there with the last value, a copy of the last value,
\* or the last value itself.
MergedAsClaimed(objects, key) ==
    LET last == LastHolding(objects, key)
        given == Read(heap0, objects[last], key)
        before == deepMerge(Append(heap0, Obj(NoProps)),
                            <<Ref(Len(heap0) + 1)>> \o SubSeq(objects, 1, last - 1))
        soFar == Read(before.heap, before.val, key)
        both == deepMerge(before.heap, <<soFar, given>>)
        held == Read(heap, out.val, key)
    IN  IF IsObjectNotArray(heap0, given)
        THEN IF ~before.thrown /\ IsObjectNotArray(before.heap, soFar)
             THEN ~both.thrown /\ Tree(heap, held) = Tree(both.heap, both.val)
             ELSE held # given /\ Tree(heap, held) = Tree(heap0, given)
        ELSE held = given

(* C24: for two or more input objects, deepMerge returns an object whose   *)
(* keys are the union of the inputs' own keys; for each key, when the last *)
(* input holding it holds a plain (non-array, non-null) object, the result *)
(* holds the recursive merge of that object with the value merged so far   *)
(* when that is a plain object too, and a copy of it otherwise; when the   *)
(* last input holding it holds any other value, the result holds exactly   *)
(* that value.                                                             *)
C24_MergeByKey ==
    (pc = "done" /\ fn = "deepMerge" /\ Len(args.objects) >= 2) =>
        /\ out.status = "returned"
        /\ OwnKeys(heap, out.val) = InputKeys(args.objects)
        /\ \A key \in InputKeys(args.objects) : MergedAsClaimed(args.objects, key)

(* C25: deepMerge never modifies any of its input objects, and for any     *)
(* number of inputs (one, two or more) the object it returns and every     *)
(* object or array nested in it is distinct from the inputs' objects.      *)
C25_MergeSharesNothing ==
    (pc = "done" /\ fn = "deepMerge") =>
        /\ InputsUnchanged
        /\ out.status = "returned" => Places(heap, out.val) \cap Given = {}

(* C26: for every value built from primitives, plain objects, arrays and   *)
(* dates, deepClone returns a value structurally equal to its argument     *)
(* that shares no object, array or date with it, so that no later change   *)
(* of the one shows in the other.                                          *)
C26_CloneIsDeep ==
    (pc = "done" /\ fn = "deepClone") =>
        /\ out.status = "returned"
        /\ InputsUnchanged
        /\ Places(heap, out.val) \cap Given = {}
        /\ Tree(heap, out.val) = Tree(heap0, args.obj)

(* C29: for every object obj and every list of keys, pick(obj, keys) and   *)
(* omit(obj, keys) have disjoint key sets whose union is the key set of    *)
(* obj, every key of either result maps to the same value as in obj, and   *)
(* obj itself is left unchanged.                                           *)
C29_PickOmitPartition ==
    (pc = "done" /\ fn \in {"pick", "omit"}) =>
        LET picked == pick(heap0, args.obj, args.keys)
            omitted == omit(heap0, args.obj, args.keys)
            pickedKeys == OwnKeys(picked.heap, picked.val)
            omittedKeys == OwnKeys(omitted.heap, omitted.val)
        IN  /\ out.status = "returned"
            /\ out.val = (IF fn = "pick" THEN picked.val ELSE omitted.val)
            /\ heap = (IF fn = "pick" THEN picked.heap ELSE omitted.heap)
            /\ InputsUnchanged
            /\ pickedKeys \cap omittedKeys = {}
            /\ pickedKeys \cup omittedKeys = OwnKeys(heap0, args.obj)
            /\ \A k \in pickedKeys : Read(picked.heap, picked.val, k) = Read(heap0, args.obj, k)
            /\ \A k \in omittedKeys : Read(omitted.heap, omitted.val, k) = Read(heap0, args.obj, k)

\* A path that has no empty segment
NoEmptySegment(path) == \A i \in DOMAIN path : path[i] # ""

(* C27: for every object obj, every dot-separated path whose segments are  *)
(* all non-empty, and every value v, set(obj, path, v) completes without   *)
(* error and get(set(obj, path, v), path) returns v, whatever obj holds    *)
(* along the path (a missing key, a primitive, null, an array or a nested  *)
(* object).                                                                *)
C27_GetAfterSet ==
    (pc = "done" /\ fn = "set" /\ NoEmptySegment(args.path)) =>
        /\ out.status = "returned"
        /\ get(heap, out.val, args.path, UndefV).val = args.value

(***************************************************************************)
(* range (src/unnamed/part_004 and src/src/array/index.ts: the same text   *)
(* in both).                                                               *)
(***************************************************************************)

\* for (let i = start; i <= end; i += step) result.push(i), from the turn
\* with st.i on.  With a step of 0 or below i never passes end once
\* i <= end holds: the loop pushes without end and the call never returns.
RECURSIVE RangeLoop(_, _, _, _)
RangeLoop(result, end, step, st) ==
    IF st.i <= end
    THEN IF step <= 0
         THEN Ends(st.heap, Forever)
         ELSE RangeLoop(result, end, step,
                        [heap |-> Push(st.heap, result, NumV(st.i)), i |-> st.i + step])
    ELSE Ends(st.heap, Return(result))

\* step = 1 when the argument is left out
StepOrDefault(step) == IF step = UndefV THEN 1 ELSE step.v

range(h, start, end, step) ==
    LET h1 == NewArray(h, <<>>)
    IN  RangeLoop(Ref(Len(h1)), end.v, StepOrDefault(step), [heap |-> h1, i |-> start.v])

rangeOld(h, start, end, step) ==
    LET h1 == NewArray(h, <<>>)
    IN  RangeLoop(Ref(Len(h1)), end.v, StepOrDefault(step), [heap |-> h1, i |-> start.v])

MaxRange == 3

MaxStep == 3

RangeArgs ==
    [start : {NumV(i) : i \in -MaxRange .. MaxRange},
     end : {NumV(i) : i \in -MaxRange .. MaxRange},
     step : {NumV(i) : i \in -2 .. MaxStep} \cup {UndefV}]

InitRange ==
    /\ pc = "call"
    /\ fn \in {"range", "rangeOld"}
    /\ heap = NoHeap
    /\ heap0 = heap
    /\ args \in RangeArgs
    /\ out = Pending

CallRange ==
    pc = "call" /\ fn = "range" /\ EndsWith(range(heap, args.start, args.end, args.step))

CallRangeOld ==
    pc = "call" /\ fn = "rangeOld" /\ EndsWith(rangeOld(heap, args.start, args.end, args.step))

NextRange ==
    \/ CallRange
    \/ CallRangeOld

SpecRange == InitRange /\ [][NextRange]_vars

(* C28: range(start, end, step) terminates for all integers start, end and *)
(* step, step = 0 and negative steps included; for step >= 1 it returns    *)
(* start, start + step, start + 2 * step, ... up to the largest such value *)
(* <= end, and the empty sequence when start > end.                        *)
C28_RangeTerminates ==
    (pc = "done" /\ fn \in {"range", "rangeOld"} /\ args.step # UndefV) =>
        /\ out.status = "returned"
        /\ args.step.v >= 1 =>
               LET count == IF args.start.v > args.end.v THEN 0
                            ELSE (args.end.v - args.start.v) \div args.step.v + 1
               IN  Items(heap, out.val) =
                       [k \in 1 .. count |-> NumV(args.start.v + (k - 1) * args.step.v)]

(***************************************************************************)
(* generateUUID (src/src/format/index.ts) and isValidUUID                  *)
(* (src/src/validation/index.ts).  A string is the sequence of its         *)
(* characters; Math.random() returns k / HexResolution for a k in          *)
(* 0 .. HexResolution - 1.                                                 *)
(***************************************************************************)
HexResolution == 16

\* 'xxxxxxxx-xxxx-4xxx-yxxx-xxxxxxxxxxxx'
UuidTemplate ==
    <<"x", "x", "x", "x", "x", "x", "x", "x", "-", "x", "x", "x", "x", "-",
      "4", "x", "x", "x", "-", "y", "x", "x", "x", "-",
      "x", "x", "x", "x", "x", "x", "x", "x", "x", "x", "x", "x">>

HexDigits == <<"0", "1", "2", "3", "4", "5", "6", "7", "8", "9", "a", "b", "c", "d", "e", "f">>

\* v.toString(16), for v in 0 .. 15
ToString16(v) == HexDigits[v + 1]

\* Math.random() * 16 | 0, for Math.random() = k / HexResolution
RandomNibble(k) == (16 * k) \div HexResolution

Nibble_unmasked(c, r) == r

\* c === 'x' ? r : (r & 0x3 | 0x8)
Nibble(c, r) == IF c = "x" THEN r ELSE (r % 4) + 8

\* The replace over the template, from position st.i on: each x and y takes
\* the next value of the random source, the other characters stay.
RECURSIVE ReplaceXY(_, _)
ReplaceXY(draws, st) ==
    IF st.i > Len(UuidTemplate) THEN st.result
    ELSE LET c == UuidTemplate[st.i]
         IN  IF c \in {"x", "y"}
             THEN ReplaceXY(draws,
                      [i |-> st.i + 1, used |-> st.used + 1,
                       result |-> Append(st.result,
                                         ToString16(Nibble(c, RandomNibble(draws[st.used + 1]))))])
             ELSE ReplaceXY(draws, [i |-> st.i + 1, used |-> st.used,
                                    result |-> Append(st.result, c)])

generateUUID(draws) == Return(StrV(ReplaceXY(draws, [i |-> 1, used |-> 0, result |-> <<>>])))

\* [0-9a-f] under the flag i
IsHexChar(c) ==
    \/ \E d \in 1 .. 16 : HexDigits[d] = c
    \/ c \in {"A", "B", "C", "D", "E", "F"}

\* /^[0-9a-f]{8}-[0-9a-f]{4}-[1-5][0-9a-f]{3}-[89ab][0-9a-f]{3}-[0-9a-f]{12}$/i
UuidRegexTest(chars) ==
    /\ Len(chars) = 36
    /\ \A i \in 1 .. 36 :
           IF i \in {9, 14, 19, 24} THEN chars[i] = "-"
           ELSE IF i = 15 THEN chars[i] \in {"1", "2", "3", "4", "5"}
           ELSE IF i = 20 THEN chars[i] \in {"8", "9", "a", "b", "A", "B"}
           ELSE IsHexChar(chars[i])

isValidUUID(uuid) == Return(UuidRegexTest(uuid.chars))

\* The number of characters the replace draws a value for
DrawCount == 31

\* The sequences of the random source in the model: one value everywhere
\* but at one draw, which takes every value.
DrawSequences ==
    {[i \in 1 .. DrawCount |-> IF i = place THEN k ELSE rest] :
        place \in 1 .. DrawCount, k \in 0 .. HexResolution - 1, rest \in 0 .. HexResolution - 1}

\* The strings given to isValidUUID: a UUID with one character changed
UuidChanges == {"0", "4", "6", "8", "b", "c", "F", "g", "-"}

UuidInputs ==
    {StrV([ReplaceXY([i \in 1 .. DrawCount |-> 0], [i |-> 1, used |-> 0, result |-> <<>>])
              EXCEPT ![pos] = c]) : pos \in 1 .. 36, c \in UuidChanges}
    \cup {StrV(<<>>), StrV(<<"4">>)}

InitUuid ==
    /\ pc = "call"
    /\ \/ fn = "generateUUID" /\ args = StrV(<<>>)
       \/ fn = "isValidUUID" /\ args \in UuidInputs
    /\ out = Pending
    /\ heap = NoHeap
    /\ heap0 = NoHeap

CallGenerateUUID ==
    /\ pc = "call" /\ fn = "generateUUID"
    /\ \E draws \in DrawSequences : out' = generateUUID(draws)
    /\ pc' = "done"
    /\ UNCHANGED <<fn, args, heap, heap0>>

CallIsValidUUID ==
    /\ pc = "call" /\ fn = "isValidUUID"
    /\ out' = isValidUUID(args)
    /\ pc' = "done"
    /\ UNCHANGED <<fn, args, heap, heap0>>

NextUuid ==
    \/ CallGenerateUUID
    \/ CallIsValidUUID

SpecUuid == InitUuid /\ [][NextUuid]_vars

(* C30: for every sequence of values of the random source, the string      *)
(* generateUUID produces is accepted by isValidUUID: it has the layout     *)
(* 8-4-4-4-12 of hexadecimal digits, its version character (the first of   *)
(* the third group) is 4 and its variant character (the first of the       *)
(* fourth group) is one of 8, 9, a, b.                                     *)
C30_GeneratedIsValid ==
    (pc = "done" /\ fn = "generateUUID") =>
        /\ out.status = "returned"
        /\ isValidUUID(out.val) = Return(TRUE)
        /\ Len(out.val.chars) = 36
        /\ \A i \in 1 .. 36 :
               IF i \in {9, 14, 19, 24} THEN out.val.chars[i] = "-"
               ELSE \E d \in 1 .. 16 : HexDigits[d] = out.val.chars[i]
        /\ out.val.chars[15] = "4"
        /\ out.val.chars[20] \in {"8", "9", "a", "b"}

C30_Witness ==
    /\ pc = "done" /\ fn = "generateUUID"
    /\ out.status = "returned"
    /\ out.val.chars[20] = "b"
    /\ out.val.chars[1] = "f"
====
